---- MODULE Spec2Model ----
(***************************************************************************)
(* TruthScope backends (check_text.py, check_media.py): the bearer-token   *)
(* decorators, the users / analysis_results tables, and the text-analysis  *)
(* pipeline of analyze_article with its JSON-repair step.                  *)
(*                                                                         *)
(* Texts are sequences of tokens.  A token is a TLA+ string holding the    *)
(* literal fragment of the Python string (a character outside ASCII is     *)
(* named by its code point); concatenating the tokens of a sequence gives  *)
(* the Python string.  Grave accents, the letters of "json", white space   *)
(* and braces are one-character tokens, so that the offsets 7, 3 and -3 of *)
(* the repair step and find/rfind mean what they mean in the code.         *)
(***************************************************************************)
EXTENDS Integers, Sequences, FiniteSets, TLC

VARIABLES
    pc,            \* pc[r]: where request / call r is
    rq,            \* rq[r]: the locals of request r
    log,           \* log[r]: the external calls r has made, in order
    users,         \* the rows of the users table
    users_id_seq,  \* the last value handed out by users_id_seq
    results,       \* the rows of the analysis_results table
    row_lock,      \* row_lock[u]: the open transaction holding url u's row, or 0
    commits,       \* commits[u]: what each committed upsert of url u wrote, in order
    unique_gid,    \* whether the schema declares users.google_id UNIQUE
    cl_json,       \* JSON-repair check: the JSON object inside the model text
    cl_text,       \* JSON-repair check: the model text
    cl_out,        \* JSON-repair check: the cleaned text
    cl_done,       \* JSON-repair check: whether the step has run
    temp_video     \* check_video.py: the file temp_video.mp4

vars == <<pc, rq, log, users, users_id_seq, results, row_lock, commits,
          unique_gid, cl_json, cl_text, cl_out, cl_done, temp_video>>

NReq == 2
Reqs == 1..NReq

(***************************************************************************)
(* Python string operations on token sequences                             *)
(***************************************************************************)
\* The characters str.strip() removes, those str.isspace() holds of.  An
\* ASCII character is the token holding it; a character outside ASCII is the
\* token naming its code point, "U+00A0" the no-break space and "U+00E9" the
\* letter e with an acute accent, so that every token is an ASCII string.
Whitespace ==
    {" ", "\t", "\n", "\r", "\f", "", "", "", "", ""}
    \cup
    {"U+0085", "U+00A0", "U+1680", "U+2000", "U+2001", "U+2002", "U+2003",
     "U+2004", "U+2005", "U+2006", "U+2007", "U+2008", "U+2009", "U+200A",
     "U+2028", "U+2029", "U+202F", "U+205F", "U+3000"}

RECURSIVE LStrip(_)
LStrip(s) == IF s # <<>> /\ Head(s) \in Whitespace THEN LStrip(Tail(s)) ELSE s

RECURSIVE RStrip(_)
RStrip(s) ==
    IF s # <<>> /\ s[Len(s)] \in Whitespace THEN RStrip(SubSeq(s, 1, Len(s) - 1)) ELSE s

\* str.strip()
Strip(s) == RStrip(LStrip(s))

\* str.startswith / str.endswith
StartsWith(s, p) == Len(s) >= Len(p) /\ SubSeq(s, 1, Len(p)) = p
EndsWith(s, p) == Len(s) >= Len(p) /\ SubSeq(s, Len(s) - Len(p) + 1, Len(s)) = p

\* s[n:] and s[:-n]
DropFirst(s, n) == SubSeq(s, n + 1, Len(s))
DropLast(s, n) == SubSeq(s, 1, Len(s) - n)

\* str.find(c) and str.rfind(c): 0-based index, -1 when absent
Find(s, c) ==
    IF \E i \in 1..Len(s) : s[i] = c
    THEN (CHOOSE i \in 1..Len(s) : s[i] = c /\ \A j \in 1..(i - 1) : s[j] # c) - 1
    ELSE -1
RFind(s, c) ==
    IF \E i \in 1..Len(s) : s[i] = c
    THEN (CHOOSE i \in 1..Len(s) : s[i] = c /\ \A j \in (i + 1)..Len(s) : s[j] # c) - 1
    ELSE -1

\* s[a:b] for 0 <= a, 0 <= b
Slice(s, a, b) == SubSeq(s, a + 1, b)

\* The grave accent, U+0060, cannot be written inside a TLA+ string: the token
\* Tick stands for that one character.
Tick == "<U+0060>"
Fence == <<Tick, Tick, Tick>>
JsonFence == Fence \o <<"j", "s", "o", "n">>

(***************************************************************************)
(* analyze_article, the JSON-repair step (check_text.py 855-874)           *)
(***************************************************************************)
StripFenceOpen(t) ==
    IF StartsWith(t, JsonFence) THEN DropFirst(t, 7)
    ELSE IF StartsWith(t, Fence) THEN DropFirst(t, 3)
    ELSE t

StripFenceClose(t) == IF EndsWith(t, Fence) THEN DropLast(t, 3) ELSE t

ExtractJson(t) ==
    IF ~StartsWith(t, <<"{">>)
    THEN LET start_idx == Find(t, "{")
             end_idx == RFind(t, "}")
         IN  IF start_idx # -1 /\ end_idx # -1
             THEN Slice(t, start_idx, end_idx + 1)
             ELSE t
    ELSE t

CleanModelText(final_text) ==
    ExtractJson(Strip(StripFenceClose(StripFenceOpen(Strip(final_text)))))

(***************************************************************************)
(* JSON values and json.loads on the token vocabulary of the model texts   *)
(*   value  ::= object | scalar token                                      *)
(*   object ::= "{" "}" | "{" member ("," member)* "}"                     *)
(*   member ::= key token, value                                           *)
(* A key token is the quoted key with its colon; a scalar token is a whole *)
(* JSON string, number, null or list of strings.                           *)
(***************************************************************************)
JStr(s) == [kind |-> "str", v |-> <<s>>]
JNum(s) == [kind |-> "num", v |-> <<s>>]
JNull == [kind |-> "null", v |-> <<>>]
JList(items) == [kind |-> "list", v |-> items]
\* A dict: v its values by key, keys its keys in insertion order.
JObj(members) == [kind |-> "obj", v |-> members.v, keys |-> members.keys]
EmptyMembers == [v |-> [k \in {} |-> JNull], keys |-> <<>>]
\* d[key] = val, d the members of a dict or a dict: a new key is the last.
With(members, key, val) ==
    [v |-> [k \in (DOMAIN members.v) \cup {key} |-> IF k = key THEN val ELSE members.v[k]],
     keys |-> IF key \in DOMAIN members.v THEN members.keys ELSE Append(members.keys, key)]
One(key, val) == With(EmptyMembers, key, val)

KeyAtoms == {"\"textResult\":", "\"label\":", "\"score\":", "\"error\":",
             "\"reasoning\":", "\"educational_insights\":", "\"localized_summary\":"}
KeyName(a) ==
    CASE a = "\"textResult\":" -> "textResult"
      [] a = "\"label\":" -> "label"
      [] a = "\"score\":" -> "score"
      [] a = "\"error\":" -> "error"
      [] a = "\"reasoning\":" -> "reasoning"
      [] a = "\"educational_insights\":" -> "educational_insights"
      [] a = "\"localized_summary\":" -> "localized_summary"

ScalarAtoms == {"\"LABEL_1\"", "\"r\"", "\"the textResult\"", "0.91", "null",
                "[\"r1\",\"r2\"]", "[\"i1\"]", "[\"textResult\"]",
                "\"Analysis failed due to tool error (quota)\"",
                "\"URL and article text must be provided by the user\""}
ScalarValue(a) ==
    CASE a = "\"LABEL_1\"" -> JStr("LABEL_1")
      [] a = "\"r\"" -> JStr("r")
      [] a = "\"the textResult\"" -> JStr("the textResult")
      [] a = "0.91" -> JNum("0.91")
      [] a = "null" -> JNull
      [] a = "[\"r1\",\"r2\"]" -> JList(<<"r1", "r2">>)
      [] a = "[\"i1\"]" -> JList(<<"i1">>)
      [] a = "[\"textResult\"]" -> JList(<<"textResult">>)
      [] a = "\"Analysis failed due to tool error (quota)\""
           -> [kind |-> "str", v |-> <<"Analysis failed due to tool error", " (quota)">>]
      [] a = "\"URL and article text must be provided by the user\""
           -> [kind |-> "str", v |-> <<"URL and article text must be provided", " by the user">>]

\* The white space json.loads accepts between tokens (json.decoder.WHITESPACE).
JsonWhitespace == {" ", "\t", "\n", "\r"}

RECURSIVE SkipWhitespace(_)
SkipWhitespace(toks) ==
    IF toks # <<>> /\ Head(toks) \in JsonWhitespace THEN SkipWhitespace(Tail(toks)) ELSE toks

ParseFail == [ok |-> FALSE, val |-> JNull, rest |-> <<>>]

RECURSIVE ParseValue(_)
RECURSIVE ParseObject(_, _, _)

\* One JSON value at the head of toks (JSONDecoder.raw_decode): [ok, val, rest].
ParseValue(toks) ==
    IF toks = <<>> THEN ParseFail
    ELSE IF Head(toks) = "{" THEN ParseObject(Tail(toks), EmptyMembers, "open")
    ELSE IF Head(toks) \in ScalarAtoms
         THEN [ok |-> TRUE, val |-> ScalarValue(Head(toks)), rest |-> Tail(toks)]
    ELSE ParseFail

\* The members of an object after its "{"; at is "open" (just after "{"),
\* "member" (after a member) or "comma" (after a comma).  A repeated key keeps
\* its last value, as json.loads does.  White space is skipped before every
\* token of the object.
ParseObject(toks0, members, at) ==
    LET toks == SkipWhitespace(toks0)
    IN  IF toks = <<>> THEN ParseFail
        ELSE IF Head(toks) = "}" /\ at # "comma"
             THEN [ok |-> TRUE, val |-> JObj(members), rest |-> Tail(toks)]
        ELSE IF Head(toks) = "," /\ at = "member"
             THEN ParseObject(Tail(toks), members, "comma")
        ELSE IF Head(toks) \in KeyAtoms /\ at # "member"
             THEN LET r == ParseValue(SkipWhitespace(Tail(toks)))
                  IN  IF r.ok
                      THEN ParseObject(r.rest, With(members, KeyName(Head(toks)), r.val), "member")
                      ELSE ParseFail
        ELSE ParseFail

\* json.loads(text): [ok, val]; ok is FALSE where json.loads raises
\* JSONDecodeError.  White space around the value is accepted, anything else
\* after it is "Extra data".
JsonLoads(text) ==
    LET r == ParseValue(SkipWhitespace(text))
    IN  IF r.ok /\ SkipWhitespace(r.rest) = <<>>
        THEN [ok |-> TRUE, val |-> r.val]
        ELSE [ok |-> FALSE, val |-> JNull]

\* key is a substring of the string part: the keys the code looks for in the
\* strings the model texts hold.
SubstringOf(key, part) ==
    \/ key = part
    \/ key = "textResult" /\ part = "the textResult"
    \/ key = "error" /\ part = "Analysis failed due to tool error"

\* Python's `key in x` (x a dict, list or str; on a str the substring test);
\* the other kinds raise TypeError.
Iterable(x) == x.kind \in {"obj", "list", "str"}
In(key, x) ==
    CASE x.kind = "obj" -> key \in DOMAIN x.v
      [] x.kind = "list" -> \E i \in 1..Len(x.v) : x.v[i] = key
      [] x.kind = "str" -> \E i \in 1..Len(x.v) : SubstringOf(key, x.v[i])
      [] OTHER -> FALSE

(***************************************************************************)
(* Model texts: one JSON object, with or without fences, with or without   *)
(* extra text (holding no brace) before and after it                       *)
(***************************************************************************)
K_textResult == "\"textResult\":"
K_label == "\"label\":"
K_score == "\"score\":"
K_error == "\"error\":"
K_reasoning == "\"reasoning\":"
K_insights == "\"educational_insights\":"

LabelScore == <<K_label, "\"LABEL_1\"", ",", K_score, "0.91">>
J_full == <<"{", K_textResult, "{">> \o LabelScore \o <<"}", "}">>
J_reasoned ==
    <<"{", K_textResult, "{">> \o LabelScore
        \o <<",", K_reasoning, "[\"r1\",\"r2\"]", ",", K_insights, "[\"i1\"]", "}", "}">>
J_nolabel == <<"{", K_textResult, "{", K_score, "0.91", "}", "}">>
J_bare == <<"{">> \o LabelScore \o <<"}">>
J_empty == <<"{", "}">>
J_numeric == <<"{", K_textResult, "0.91", "}">>
J_modelerror == <<"{", K_textResult, "{", K_error, "\"r\"", "}", "}">>
\* J_full with white space between its tokens.
J_spaced ==
    <<"{", " ", K_textResult, "\t", "{", "\n">> \o LabelScore \o <<"\r", "}", " ", "}">>
JsonObjects ==
    {J_full, J_reasoned, J_nolabel, J_bare, J_empty, J_numeric, J_modelerror, J_spaced}


\* A text around the object j: its parts, in order.
TextAround(j, lead, pre, open, close, suf, trail) ==
    lead \o pre \o open \o j \o close \o suf \o trail

TextsAround(j) ==
    {TextAround(j, lead, pre, open, close, suf, trail) :
        lead \in {<<>>, <<" ">>},
        pre \in {<<>>, <<"Here is the analysis:", "\n">>},
        open \in {<<>>, JsonFence \o <<"\n">>, Fence \o <<"\n">>},
        close \in {<<>>, <<"\n">> \o Fence},
        suf \in {<<>>, <<"\n", "Done.">>},
        trail \in {<<>>, <<"\n">>, <<"\f", "U+2003">>}}

(***************************************************************************)
(* Constants of the two backends                                           *)
(***************************************************************************)
DEFAULT_USER_TIER == "free"
PAID_TIER == "paid"
Urls == {"u1", "u2"}
Endpoints == {"analyze", "analyze_image", "analyze_video", "analyze_audio"}
Backend(ep) == IF ep = "analyze" THEN "text" ELSE "media"

\* Authorization headers, as sequences of atoms; <<>> is a missing header.
Headers == {<<>>, <<"Basic ", "tokA">>, <<"Bearer ">>, <<"Bearer ", "tokP">>,
            <<"Bearer ", "tokA">>, <<"Bearer ", "bad">>,
            <<"Bearer ", "Bearer ", "tokA">>}

\* The userinfo endpoint: the account behind a token it accepts.
ValidTokens == {<<"tokP">>, <<"tokA">>}
TokenSubject(tok) ==
    IF tok = <<"tokP">> THEN [id |-> "gP", email |-> "p@x"]
    ELSE [id |-> "gA", email |-> "a@x"]
UserinfoFailures == {"timeout", "http_error", "network_error", "bad_json", "no_id"}
UserinfoOutcomes(tok) ==
    UserinfoFailures \cup {"empty_id"} \cup (IF tok \in ValidTokens THEN {"ok"} ELSE {})

\* The users table as the deployment starts: one account was given the paid
\* tier by hand (no code path of either backend sets a tier other than free).
InitialUsers == {[id |-> 1, google_id |-> "gP", email |-> "p@x", tier |-> PAID_TIER]}

(***************************************************************************)
(* Responses and analysis results                                          *)
(***************************************************************************)
JText(toks) == [kind |-> "str", v |-> toks]
ErrBody(msg) == JObj(One("error", JText(msg)))
HasKey(x, key) == x.kind = "obj" /\ key \in DOMAIN x.v

ErrorResult(members) == JObj(One("textResult", JObj(members)))
MissingInputResult ==
    ErrorResult(One("error", JText(<<"URL and article text must be provided", ".">>)))
InvalidJsonResult ==
    ErrorResult(With(With(One("error", JText(<<"Model did not return valid JSON", " in the final response.">>)),
                          "details", JStr("JSON parse error")),
                     "raw_response_preview", JStr("final_text[:500]")))
NoTextResult ==
    ErrorResult(With(One("error", JText(<<"Model did not provide a final text analysis", ".">>)),
                     "details", JStr("No text in response")))
ToolErrorResult ==
    ErrorResult(One("error", JText(<<"Analysis failed due to tool error", ": ", "str(known_err)">>)))
UnexpectedResult ==
    ErrorResult(With(One("error", JStr("An unexpected server error occurred during analysis interaction.")),
                     "details", JStr("str(e)")))

\* analyze_article after json.loads (check_text.py 880-890): the result, or
\* exc where the code raises (a TypeError of `in` on a number or null, an
\* AttributeError of .get on a list or string) into its `except Exception`.
PostParse(val) ==
    IF ~Iterable(val) THEN [exc |-> TRUE, result |-> JNull]
    ELSE LET ar == IF ~In("textResult", val) THEN JObj(One("textResult", val)) ELSE val
         IN  IF ar.kind # "obj" THEN [exc |-> TRUE, result |-> JNull]
             ELSE IF ~Iterable(ar.v["textResult"]) THEN [exc |-> TRUE, result |-> JNull]
             ELSE [exc |-> FALSE, result |-> ar]

\* "\n".join(items)
RECURSIVE Join(_)
Join(items) ==
    IF items = <<>> THEN <<>>
    ELSE IF Len(items) = 1 THEN <<items[1]>>
    ELSE <<items[1], "\n">> \o Join(Tail(items))

\* The characters of a string part, for the parts the model texts hold.
Chars(s) ==
    CASE s = "LABEL_1" ->
           <<"L", "A", "B", "E", "L", "_", "1">>
      [] s = "r" ->
           <<"r">>
      [] s = "the textResult" ->
           <<"t", "h", "e", " ", "t", "e", "x", "t", "R", "e", "s", "u",
             "l", "t">>
      [] s = "Analysis failed due to tool error" ->
           <<"A", "n", "a", "l", "y", "s", "i", "s", " ", "f", "a", "i",
             "l", "e", "d", " ", "d", "u", "e", " ", "t", "o", " ", "t",
             "o", "o", "l", " ", "e", "r", "r", "o", "r">>
      [] s = " (quota)" ->
           <<" ", "(", "q", "u", "o", "t", "a", ")">>
      [] s = "URL and article text must be provided" ->
           <<"U", "R", "L", " ", "a", "n", "d", " ", "a", "r", "t", "i",
             "c", "l", "e", " ", "t", "e", "x", "t", " ", "m", "u", "s",
             "t", " ", "b", "e", " ", "p", "r", "o", "v", "i", "d", "e",
             "d">>
      [] s = " by the user" ->
           <<" ", "b", "y", " ", "t", "h", "e", " ", "u", "s", "e", "r">>

\* The characters of a string, the sequence of its parts.
RECURSIVE CharsOf(_)
CharsOf(parts) == IF parts = <<>> THEN <<>> ELSE Chars(Head(parts)) \o CharsOf(Tail(parts))

\* text_result.get(key, []) joined (check_text.py 897-899); ok is FALSE where
\* the code raises into the `except Exception` of the localization block.
\* str.join takes any iterable of strings: the items of a list (of strings,
\* as the lists of the model texts are), the characters of a string, the keys
\* of a dict; a number or null is not iterable (TypeError), and a textResult
\* that is no dict has no .get (AttributeError).
JoinedField(tr, key) ==
    IF tr.kind # "obj" THEN [ok |-> FALSE, text |-> <<>>]
    ELSE IF key \notin DOMAIN tr.v THEN [ok |-> TRUE, text |-> <<>>]
    ELSE LET x == tr.v[key]
         IN  CASE x.kind = "list" -> [ok |-> TRUE, text |-> Join(x.v)]
               [] x.kind = "str" -> [ok |-> TRUE, text |-> Join(CharsOf(x.v))]
               [] x.kind = "obj" -> [ok |-> TRUE, text |-> Join(x.keys)]
               [] OTHER -> [ok |-> FALSE, text |-> <<>>]

\* translate_text(text, lang, 'en') when the API answers; the translation of
\* the empty text is the empty text.
Translated(text, lang) == IF text = <<>> THEN <<>> ELSE <<lang, ":">> \o text

\* The detected language asks for a localized summary (check_text.py 895).
\* The mutant of NeedsLocalization: every language does.
NeedsLocalizationAlways(lang) == lang # ""

NeedsLocalization(lang) == lang # "" /\ lang # "en"

\* handle_analyze, the status of a result (check_text.py 1003-1023).  An
\* error text is the sequence of its parts, the needles the handler looks
\* for being parts of their own.
HasError(result) ==
    /\ HasKey(result, "textResult")
    /\ In("error", result.v["textResult"])

\* [exc, status]: exc where `needle in error_msg` raises TypeError (the error
\* value is a number or null; on a string it is the substring test, on a list
\* or a dict the membership test) or .get or .keys raises AttributeError
\* (textResult is no dict).
AnalyzeStatus(result) ==
    IF ~HasError(result)
    THEN [exc |-> HasKey(result, "textResult") /\ result.v["textResult"].kind # "obj",
          status |-> 200]
    ELSE LET tr == result.v["textResult"]
         IN  IF tr.kind # "obj" THEN [exc |-> TRUE, status |-> 0]
             ELSE IF ~Iterable(tr.v["error"]) THEN [exc |-> TRUE, status |-> 0]
             ELSE LET error_msg == tr.v["error"]
                  IN  [exc |-> FALSE,
                       status |->
                          IF In("Analysis failed due to tool error", error_msg) THEN 502
                          ELSE IF In("Model did not return valid JSON", error_msg)
                                  \/ In("Model did not provide a final text analysis", error_msg)
                               THEN 500
                          ELSE IF In("URL and article text must be provided", error_msg) THEN 400
                          ELSE 500]

(***************************************************************************)
(* Requests and calls                                                      *)
(***************************************************************************)
NoUser == [id |-> 0, tier |-> "none"]
NoGUser == [id |-> 0, tier |-> "none", google_id |-> "", email |-> ""]

\* The locals of a request or call as it starts.
Fresh(kind, ep) ==
    [kind |-> kind, endpoint |-> ep, backend |-> Backend(ep),
     header |-> <<>>, token |-> <<>>, verify |-> "none",
     google_id |-> "", email |-> "", db_user |-> NoUser, new_id |-> 0, created |-> FALSE,
     g_user |-> NoGUser, conn |-> FALSE, handler_ran |-> FALSE,
     url |-> "", article_text |-> "", media_url |-> "",
     detect |-> "none", lang |-> "", parsed |-> FALSE,
     reasoning_en |-> <<>>, insights_en |-> <<>>, reasoning_localized |-> <<>>,
     result |-> JNull, exc |-> "none", status |-> 0, body |-> JNull]

Respond(q, status, body) == [q EXCEPT !.status = status, !.body = body]

\* r ends with locals q, having made the calls evs.
Finish(r, q, evs) ==
    /\ pc' = [pc EXCEPT ![r] = "done"]
    /\ rq' = [rq EXCEPT ![r] = q]
    /\ log' = [log EXCEPT ![r] = @ \o evs]

\* r goes on at label with locals q, having made the calls evs.
Goto(r, label, q, evs) ==
    /\ pc' = [pc EXCEPT ![r] = label]
    /\ rq' = [rq EXCEPT ![r] = q]
    /\ log' = [log EXCEPT ![r] = @ \o evs]

\* release_db_connection(conn): conn.close(), an error of which is only logged;
\* the connection is open no more.
\* The mutant of Release: the connection is left as it is.
ReleaseLeaks(conn) == conn

Release(conn) == FALSE

users_vars == <<users, users_id_seq>>
results_vars == <<results, row_lock, commits>>
clean_vars == <<cl_json, cl_text, cl_out, cl_done>>

(***************************************************************************)
(* require_auth / require_auth_and_paid_tier: the Authorization header     *)
(***************************************************************************)
\* auth_header and auth_header.startswith('Bearer ')
\* The mutant of BearerHeader: the scheme of the header is not looked at.
BearerHeaderAnyScheme(h) == h # <<>>

BearerHeader(h) == h # <<>> /\ StartsWith(h, <<"Bearer ">>)

\* auth_header.split('Bearer ')[1], for a header that starts with 'Bearer '
AccessToken(h) ==
    LET rest == Tail(h)
        next == Find(rest, "Bearer ")
    IN  IF h = <<>> THEN <<>> ELSE IF next = -1 THEN rest ELSE Slice(rest, 0, next)

Receive(r) ==
    /\ pc[r] = "idle"
    /\ \E ep \in Endpoints, h \in Headers :
         LET q == [Fresh("http", ep) EXCEPT !.header = h]
         IN  IF ~BearerHeader(h)
             THEN Finish(r, Respond(q, 401, ErrBody(<<"Authorization header missing or invalid">>)),
                         <<"respond">>)
             ELSE IF AccessToken(h) = <<>>
             THEN Finish(r, Respond(q, 401, ErrBody(<<"Empty token provided">>)), <<"respond">>)
             ELSE Goto(r, "verify", [q EXCEPT !.token = AccessToken(h)], <<>>)
    /\ UNCHANGED <<users_vars, results_vars, unique_gid, clean_vars, temp_video>>

(***************************************************************************)
(* verify_google_access_token and the decorator's use of it                *)
(***************************************************************************)
\* The message of the AuthenticationError for the userinfo answer o.  A body
\* that is no JSON makes response.json() raise requests' JSONDecodeError, a
\* RequestException (requests 2.27 and later), which the RequestException
\* clause takes before the json.JSONDecodeError clause is reached.
VerifyMessage(o) ==
    CASE o = "timeout" -> "Timeout during token verification."
      [] o = "http_error" -> "Token verification failed (HTTP status)."
      [] o = "network_error" -> "Network error during token verification."
      [] o = "bad_json" -> "Network error during token verification."
      [] o = "no_id" -> "Unexpected error during token verification: Invalid user info received from Google."
      [] OTHER -> "Verified token info missing user ID ('sub')."

\* The user info a userinfo answer carries.
UserInfo(tok, o) ==
    IF o = "ok" THEN TokenSubject(tok) ELSE [id |-> "", email |-> "e@x"]

\* Where the request goes after the userinfo call answered o.
\* The mutant of AfterVerify: a timeout is tried again.
AfterVerifyRetrying(tok, o) ==
    IF o = "timeout" THEN "verify"
    ELSE IF o \in UserinfoFailures \/ UserInfo(tok, o).id = "" THEN "done"
    ELSE "user_connect"

AfterVerify(tok, o) ==
    IF o \in UserinfoFailures \/ UserInfo(tok, o).id = "" THEN "done" ELSE "user_connect"

\* The exception verify_google_access_token raises on the userinfo answer o:
\* each except clause raises AuthenticationError (check_text.py 233-248).
\* The mutant of VerifyRaises: an undecodable body leaves as a ValueError.
VerifyRaisesValueError(o) ==
    IF o = "bad_json" THEN "ValueError"
    ELSE IF o \in UserinfoFailures THEN "AuthenticationError"
    ELSE "none"

VerifyRaises(o) == IF o \in UserinfoFailures THEN "AuthenticationError" ELSE "none"

\* The decorator's answer to an exception of its try block (check_text.py
\* 364-372, check_media.py 287-295).
AuthFailed(q, exc, msg) ==
    IF exc = "AuthenticationError"
    THEN Respond([q EXCEPT !.exc = exc], 401, ErrBody(<<"Authentication failed: ", msg>>))
    ELSE Respond([q EXCEPT !.exc = exc], 500, ErrBody(<<"Unexpected server error during authentication">>))

VerifyToken(r) ==
    /\ pc[r] = "verify"
    /\ \E o \in UserinfoOutcomes(rq[r].token) :
         LET q == [rq[r] EXCEPT !.verify = o]
             info == UserInfo(q.token, o)
             next == AfterVerify(q.token, o)
             exc == IF VerifyRaises(o) # "none" THEN VerifyRaises(o) ELSE "AuthenticationError"
         IN  IF next = "done"
             THEN Finish(r, AuthFailed(q, exc, VerifyMessage(o)), <<"userinfo", "respond">>)
             ELSE Goto(r, next,
                       IF next = "verify" THEN q
                       ELSE [q EXCEPT !.google_id = info.id, !.email = info.email],
                       <<"userinfo">>)
    /\ UNCHANGED <<users_vars, results_vars, unique_gid, clean_vars, temp_video>>

(***************************************************************************)
(* get_or_create_user (both backends) and what the decorators do with it   *)
(***************************************************************************)
\* The row INSERT INTO users ... VALUES (google_id, email, DEFAULT_USER_TIER)
\* adds, id being the next value of users_id_seq.
\* The mutant of NewUserRow: the new row gets the paid tier.
NewUserRowPaid(id, google_id, email) ==
    [id |-> id, google_id |-> google_id, email |-> email, tier |-> PAID_TIER]

NewUserRow(id, google_id, email) ==
    [id |-> id, google_id |-> google_id, email |-> email, tier |-> DEFAULT_USER_TIER]

\* user_tier != PAID_TIER is answered 403 (check_media.py 297-300).
\* The mutant of TierAllowed: any known tier passes.
TierAllowedAny(tier) == tier # "none"

TierAllowed(tier) == tier = PAID_TIER

DbErrorPrefix(backend) ==
    IF backend = "text" THEN "Server error during user processing: "
    ELSE "Server error during user authentication: "

\* The text get_or_create_user gives the DatabaseError it raises for the
\* exception exc of its try: the backend's own DatabaseError (of
\* get_db_connection, or raised for a missing row) is taken by `except
\* DatabaseError`, every other by `except Exception`.
UserErrorText(exc) ==
    IF exc = "DatabaseError" THEN "DB error accessing user data"
    ELSE "Unexpected error accessing user data"

\* get_or_create_user raised DatabaseError(text ...); its connection, if any,
\* is closed, and the decorator answers 500.
\* The mutant of UserFailed: the decorator goes on to the handler.
UserFailedIgnored(r, q0, text, evs) ==
    LET q == [q0 EXCEPT !.conn = FALSE, !.exc = "DatabaseError"]
    IN  IF q.kind = "call_user" THEN Finish(r, q, evs) ELSE Goto(r, "handler", q, evs)

UserFailed(r, q0, text, evs) ==
    LET q == [q0 EXCEPT !.conn = Release(@), !.exc = "DatabaseError"]
    IN  IF q.kind = "call_user" THEN Finish(r, q, evs)
        ELSE Finish(r, Respond(q, 500, ErrBody(<<DbErrorPrefix(q.backend), text>>)),
                    evs \o <<"respond">>)

\* check_media.py 246: conn.rollback() in `except Exception` raised, and the
\* driver's exception (InterfaceError, none of the backend's classes) leaves
\* get_or_create_user, the connection closed by `finally`; the decorator's
\* `except Exception` answers it.
UserEscaped(r, q0, evs) ==
    LET q == [q0 EXCEPT !.conn = Release(@)]
    IN  IF q.kind = "call_user" THEN Finish(r, [q EXCEPT !.exc = "InterfaceError"], evs)
        ELSE Finish(r, AuthFailed(q, "InterfaceError", ""), evs \o <<"respond">>)

\* A call of the driver raised inside the try of get_or_create_user, the
\* connection open: `except Exception` wraps it into DatabaseError, on the
\* media backend after conn.rollback(), which may raise itself.
UserRaised(r, q, evs) ==
    \/ UserFailed(r, q, UserErrorText("InterfaceError"), evs)
    \/ q.backend = "media" /\ UserEscaped(r, q, evs)

\* get_or_create_user returned the id and tier of row u; the decorator stores
\* g.user and, on the media backend, checks the tier.
UserReturned(r, q0, u, evs) ==
    LET q == [q0 EXCEPT !.conn = Release(@), !.db_user = [id |-> u.id, tier |-> u.tier]]
        qg == [q EXCEPT !.g_user = [id |-> u.id, tier |-> u.tier,
                                    google_id |-> q.google_id, email |-> q.email]]
    IN  IF q.kind = "call_user" THEN Finish(r, q, evs)
        ELSE IF q.backend = "media" /\ ~TierAllowed(qg.g_user.tier)
        THEN Finish(r, Respond(qg, 403, ErrBody(<<"Access denied. This feature requires a 'paid' subscription.">>)),
                    evs \o <<"respond">>)
        ELSE Goto(r, "handler", qg, evs)

\* A direct call get_or_create_user(google_id, email).
CallGetOrCreateUser(r) ==
    /\ pc[r] = "idle"
    /\ \E ep \in {"analyze", "analyze_video"}, gid \in {"", "gA", "gP"}, email \in {"a@x", "b@x"} :
         LET q == [Fresh("call_user", ep) EXCEPT !.google_id = gid, !.email = email]
         IN  IF gid = ""
             THEN Finish(r, [q EXCEPT !.exc = "AuthenticationError"], <<"get_or_create_user">>)
             ELSE Goto(r, "user_connect", q, <<>>)
    /\ UNCHANGED <<users_vars, results_vars, unique_gid, clean_vars, temp_video>>

\* conn = get_db_connection()
UserConnect(r) ==
    /\ pc[r] = "user_connect"
    /\ \/ Goto(r, "user_select", [rq[r] EXCEPT !.conn = TRUE], <<"get_or_create_user", "connect">>)
       \/ UserFailed(r, rq[r], UserErrorText("DatabaseError"), <<"get_or_create_user", "connect">>)
    /\ UNCHANGED <<users_vars, results_vars, unique_gid, clean_vars, temp_video>>

\* SELECT id, tier FROM users WHERE google_id = %s; fetchone()
UserSelect(r) ==
    /\ pc[r] = "user_select"
    /\ LET found == {u \in users : u.google_id = rq[r].google_id}
       IN  \/ UserRaised(r, rq[r], <<"users.select">>)
           \/ /\ found # {}
              /\ \E u \in found : UserReturned(r, rq[r], u, <<"users.select">>)
           \/ /\ found = {}
              /\ Goto(r, "user_insert", rq[r], <<"users.select">>)
    /\ UNCHANGED <<users_vars, results_vars, unique_gid, clean_vars, temp_video>>

\* cursor.execute(INSERT INTO users ... RETURNING id, tier): the statement
\* draws the next id of the sequence, which keeps it whatever becomes of the
\* row.  With google_id UNIQUE the statement waits while another open
\* transaction has inserted a row of this google_id, and fails with a unique
\* violation when such a row is committed.  The media backend fetches the
\* returned row before it commits (check_media.py 222-231): none returned, it
\* rolls back and raises DatabaseError, which `except DatabaseError` wraps
\* after a guarded rollback; a rollback of line 230 that raises goes to
\* `except Exception`.
UserInsert(r) ==
    /\ pc[r] = "user_insert"
    /\ LET q == rq[r]
           taken == \E u \in users : u.google_id = q.google_id
           pending == \E r2 \in Reqs \ {r} :
                         pc[r2] = "user_commit" /\ rq[r2].google_id = q.google_id
           inserted == [q EXCEPT !.new_id = users_id_seq + 1]
       IN  /\ ~(unique_gid /\ pending)
           /\ users_id_seq' = users_id_seq + 1
           /\ UNCHANGED users
           /\ \/ UserRaised(r, q, <<"users.insert">>)
              \/ /\ unique_gid /\ taken
                 /\ UserRaised(r, q, <<"users.insert", "unique_violation">>)
              \/ /\ ~(unique_gid /\ taken)
                 /\ \/ Goto(r, "user_commit", inserted, <<"users.insert">>)
                    \/ /\ q.backend = "media"
                       /\ \/ UserFailed(r, inserted, UserErrorText("DatabaseError"), <<"users.insert">>)
                          \/ UserRaised(r, inserted, <<"users.insert">>)
    /\ UNCHANGED <<results_vars, unique_gid, clean_vars, temp_video>>

\* conn.commit(): the inserted row becomes the table's, and the function
\* returns its id and tier; a failed commit leaves the table as it was.  The
\* text backend fetches the returned row after the commit (check_text.py
\* 294-301): none returned, it raises DatabaseError, the row in the table.
UserCommit(r) ==
    /\ pc[r] = "user_commit"
    /\ LET q == rq[r]
           row == NewUserRow(q.new_id, q.google_id, q.email)
           created == [q EXCEPT !.created = TRUE]
       IN  \/ /\ UserRaised(r, q, <<"users.commit">>)
              /\ UNCHANGED users
           \/ /\ users' = users \cup {row}
              /\ \/ UserReturned(r, created, row, <<"users.commit">>)
                 \/ /\ q.backend = "text"
                    /\ UserFailed(r, created, UserErrorText("DatabaseError"), <<"users.commit">>)
    /\ UNCHANGED <<users_id_seq, results_vars, unique_gid, clean_vars, temp_video>>

(***************************************************************************)
(* The handlers                                                            *)
(***************************************************************************)
\* What the handler reads from the request: not JSON, a JSON list, or a JSON
\* object with its fields ("" for a missing or empty field).
TextBodies ==
    {[kind |-> "not_json", url |-> "", article_text |-> ""],
     [kind |-> "list", url |-> "", article_text |-> ""]}
    \cup {[kind |-> "dict", url |-> u, article_text |-> t] :
            u \in {"", "u1"}, t \in {"", "text"}}

MediaUrls == {"", "ftp://m", "https://m"}
WellFormedUrl(u) == u = "https://m"

\* An exception left the handler body: require_auth's `except Exception`
\* answers it (check_text.py 370-372); the media decorator calls the handler
\* outside its try, and Flask answers 500 with no JSON body.
HandlerRaised(r, q, evs) ==
    IF q.backend = "text"
    THEN Finish(r, Respond(q, 500, ErrBody(<<"Unexpected server error during authentication">>)),
                evs \o <<"respond">>)
    ELSE Finish(r, Respond(q, 500, JNull), evs \o <<"respond">>)

\* handle_analyze up to the call of analyze_article
HandleAnalyze(r) ==
    /\ pc[r] = "handler"
    /\ rq[r].backend = "text"
    /\ \E b \in TextBodies :
         LET q == [rq[r] EXCEPT !.handler_ran = TRUE]
         IN  CASE b.kind = "not_json" ->
                    Finish(r, Respond(q, 400, ErrBody(<<"Request must be JSON">>)), <<"respond">>)
               [] b.kind = "list" -> HandlerRaised(r, q, <<>>)
               [] OTHER ->
                    IF b.url = "" \/ b.article_text = ""
                    THEN Finish(r, Respond(q, 400, ErrBody(<<"Missing 'url' or 'article_text' in JSON payload">>)),
                                <<"respond">>)
                    ELSE Goto(r, "analyze", [q EXCEPT !.url = b.url, !.article_text = b.article_text], <<>>)
    /\ UNCHANGED <<users_vars, results_vars, unique_gid, clean_vars, temp_video>>

\* handle_analyze_image / _video / _audio up to the call of the analysis
HandleMedia(r) ==
    /\ pc[r] = "handler"
    /\ rq[r].backend = "media"
    /\ \E kind \in {"not_json", "list", "dict"}, u \in MediaUrls :
         LET q == [rq[r] EXCEPT !.handler_ran = TRUE]
         IN  CASE kind = "not_json" ->
                    Finish(r, Respond(q, 400, ErrBody(<<"Request must be JSON">>)), <<"respond">>)
               [] kind = "list" -> HandlerRaised(r, q, <<>>)
               [] OTHER ->
                    IF u = ""
                    THEN Finish(r, Respond(q, 400, ErrBody(<<"Missing 'media_url' in JSON payload">>)),
                                <<"respond">>)
                    ELSE IF q.endpoint = "analyze_image" /\ ~WellFormedUrl(u)
                    THEN Finish(r, Respond(q, 400, ErrBody(<<"Invalid 'media_url' format">>)),
                                <<"respond">>)
                    ELSE Goto(r, "media_logic", [q EXCEPT !.media_url = u], <<>>)
    /\ UNCHANGED <<users_vars, results_vars, unique_gid, clean_vars, temp_video>>

\* analyze_image_logic / analyze_video_logic / analyze_audio_logic and the
\* status the handler gives their result
MediaStatuses(ep) ==
    IF ep = "analyze_image" THEN {"success", "partial_success", "error", "error_upstream"}
    ELSE {"success", "error"}

MediaResult(st) ==
    IF st = "error_upstream"
    THEN JObj(With(One("status", JStr("error")), "manipulated_media",
                   JList(<<JObj(One("manipulation_error", JStr("Timeout calling")))>>)))
    ELSE JObj(One("status", JStr(st)))

\* 200 for "success"; 502 for an "error" whose manipulated_media[0] carries
\* an upstream manipulation_error (the image handler only); 500 otherwise.
MediaHttpStatus(ep, result) ==
    IF result.v["status"] = JStr("success") THEN 200
    ELSE IF /\ ep = "analyze_image"
            /\ result.v["status"] = JStr("error")
            /\ "manipulated_media" \in DOMAIN result.v
            /\ result.v["manipulated_media"].v[1].v["manipulation_error"]
                  \in {JStr("API returned HTTP error"), JStr("Timeout calling"),
                       JStr("Network error calling")}
         THEN 502
    ELSE 500

RunMediaLogic(r) ==
    /\ pc[r] = "media_logic"
    /\ \E st \in MediaStatuses(rq[r].endpoint) :
         Finish(r, Respond([rq[r] EXCEPT !.result = MediaResult(st)],
                           MediaHttpStatus(rq[r].endpoint, MediaResult(st)), MediaResult(st)),
                <<"analysis_logic", "respond">>)
    /\ UNCHANGED <<users_vars, results_vars, unique_gid, clean_vars, temp_video>>

(***************************************************************************)
(* The JSON-repair step alone, on every model text                         *)
(***************************************************************************)
NoRq == [kind |-> "none"]

\* temp_video.mp4 is absent.  A file is the inode its path names (ino counts
\* the files created under the path) and its data, a sequence of chunks, each
\* the number of the request that wrote it (0 where nothing was written).
NoFile == [exists |-> FALSE, ino |-> 0, data |-> <<>>]

PipelineIdle ==
    /\ pc = [r \in Reqs |-> "idle"]
    /\ rq = [r \in Reqs |-> NoRq]
    /\ log = [r \in Reqs |-> <<>>]
    /\ users = InitialUsers
    /\ users_id_seq = 1
    /\ results = {}
    /\ row_lock = [u \in Urls |-> 0]
    /\ commits = [u \in Urls |-> <<>>]
    /\ temp_video = NoFile

pipeline_vars ==
    <<pc, rq, log, users, users_id_seq, results, row_lock, commits, unique_gid, temp_video>>

\* cl_text is a text around the object cl_json.
InitClean ==
    /\ PipelineIdle
    /\ unique_gid = FALSE
    /\ cl_json \in JsonObjects
    /\ cl_text \in TextsAround(cl_json)
    /\ cl_out = <<>>
    /\ cl_done = FALSE

CleanStep ==
    /\ ~cl_done
    /\ cl_out' = CleanModelText(cl_text)
    /\ cl_done' = TRUE
    /\ UNCHANGED <<cl_text, cl_json, pipeline_vars>>

SpecClean == InitClean /\ [][CleanStep]_vars

\* C10: for every model text that is one JSON object with extra text (no
\* brace in it) before and/or after it, fenced or not, the cleaned text handed
\* to json.loads is exactly the JSON object.
C10_CleanedIsTheObject == cl_done => cl_out = cl_json

(***************************************************************************)
(* analyze_article                                                         *)
(***************************************************************************)
\* The texts the model answers with in the pipeline.
PipelineTexts ==
    {J_full,
     J_reasoned,
     JsonFence \o <<"\n">> \o J_reasoned \o <<"\n">> \o Fence,
     <<"Here is the analysis:", "\n">> \o J_full,
     J_full \o <<"\n", "Done.">>,
     J_nolabel,
     J_bare,
     J_numeric,
     J_modelerror,
     <<"{", K_textResult, "{", K_reasoning, "0.91", "}", "}">>,
     <<"0.91">>,
     <<"[\"textResult\"]">>,
     <<"Sorry.">>,
     <<"{", K_textResult, "{", K_error, "\"Analysis failed due to tool error (quota)\"", "}", "}">>,
     <<"{", K_textResult, "{", K_error, "\"URL and article text must be provided by the user\"", "}", "}">>,
     <<"{", K_textResult, "{", K_error, "null", "}", "}">>,
     <<"\t">> \o J_spaced \o <<"\r", "U+00A0">>,
     <<"{", K_textResult, "[\"r1\",\"r2\"]", "}">>,
     <<"{", K_textResult, "{", K_error, "[\"r1\",\"r2\"]", "}", "}">>,
     <<"{", K_textResult, "{", K_reasoning, "\"r\"", ",",
       K_insights, "{", K_label, "\"r\"", ",", K_score, "0.91", "}", "}", "}">>}

\* analyze_article returns result: to its caller, or to handle_analyze, which
\* answers with the status of the result.
ReturnAnalysis(r, q0, result, evs) ==
    LET q == [q0 EXCEPT !.result = result, !.conn = Release(@)]
        st == AnalyzeStatus(result)
    IN  IF q.kind # "http" THEN Finish(r, q, evs)
        ELSE IF st.exc THEN HandlerRaised(r, q, evs)
        ELSE Finish(r, Respond(q, st.status, result), evs \o <<"respond">>)

\* A direct call analyze_article(url, article_text).
CallAnalyzeArticle(r) ==
    /\ pc[r] = "idle"
    /\ \E u \in Urls \cup {""}, t \in {"", "text"} :
         Goto(r, "analyze", [Fresh("call_analyze", "analyze") EXCEPT !.url = u, !.article_text = t], <<>>)
    /\ UNCHANGED <<users_vars, results_vars, unique_gid, clean_vars, temp_video>>

\* if not url or not article_text (check_text.py 817)
\* The mutant of MissingInput: the inputs are not looked at.
MissingInputNever(url, article_text) == FALSE

MissingInput(url, article_text) == url = "" \/ article_text = ""

\* detect_language: the language the API detected, 'en' where it failed.
\* The mutant of DetectedLanguage: a failure is taken for Hindi.
DetectedLanguageHindi(o) == IF o = "fail" THEN "hi" ELSE o

DetectedLanguage(o) == IF o = "fail" THEN "en" ELSE o

\* The input check and detect_language(article_text[:500]).
DetectLanguage(r) ==
    /\ pc[r] = "analyze"
    /\ LET q == rq[r]
       IN  IF MissingInput(q.url, q.article_text)
           THEN ReturnAnalysis(r, q, MissingInputResult, <<>>)
           ELSE \E o \in {"en", "hi", "fail"} :
                  Goto(r, "generate",
                       [q EXCEPT !.detect = o, !.lang = DetectedLanguage(o)],
                       <<"detect_language">>)
    /\ UNCHANGED <<users_vars, results_vars, unique_gid, clean_vars, temp_video>>

\* gemini_model.generate_content(initial_prompt, ...), then the repair of the
\* text, json.loads and the checks of the parsed value, up to the first
\* translation or the call of update_analysis_results.
GenerateContent(r) ==
    /\ pc[r] = "generate"
    /\ LET q == rq[r]
       IN  \/ ReturnAnalysis(r, q, UnexpectedResult, <<"generate_content">>)
           \/ ReturnAnalysis(r, q, NoTextResult, <<"generate_content">>)
           \/ \E t \in PipelineTexts :
                LET qt == q
                    loaded == JsonLoads(CleanModelText(t))
                    pp == PostParse(loaded.val)
                    evs == <<"generate_content", "json.loads">>
                IN  IF ~loaded.ok THEN ReturnAnalysis(r, qt, InvalidJsonResult, evs)
                    ELSE IF pp.exc THEN ReturnAnalysis(r, [qt EXCEPT !.parsed = TRUE], UnexpectedResult, evs)
                    ELSE LET qp == [qt EXCEPT !.parsed = TRUE, !.result = pp.result]
                             tr == pp.result.v["textResult"]
                             re == JoinedField(tr, "reasoning")
                             ins == JoinedField(tr, "educational_insights")
                         IN  IF NeedsLocalization(q.lang) /\ re.ok /\ ins.ok
                             THEN Goto(r, "translate_reasoning",
                                       [qp EXCEPT !.reasoning_en = re.text, !.insights_en = ins.text], evs)
                             ELSE Goto(r, "store", qp, evs)
    /\ UNCHANGED <<users_vars, results_vars, unique_gid, clean_vars, temp_video>>

\* reasoning_localized = translate_text(reasoning_en, detected_language, 'en');
\* a failure of the translation returns the text as it is.
TranslateReasoning(r) ==
    /\ pc[r] = "translate_reasoning"
    /\ \E ok \in BOOLEAN :
         Goto(r, "translate_insights",
              [rq[r] EXCEPT !.reasoning_localized =
                  IF ok THEN Translated(rq[r].reasoning_en, rq[r].lang) ELSE rq[r].reasoning_en],
              <<"translate_reasoning">>)
    /\ UNCHANGED <<users_vars, results_vars, unique_gid, clean_vars, temp_video>>

\* insights_localized = translate_text(insights_en, ...), then
\* text_result["localized_summary"] = {...}
TranslateInsights(r) ==
    /\ pc[r] = "translate_insights"
    /\ \E ok \in BOOLEAN :
         LET q == rq[r]
             insights_localized == IF ok THEN Translated(q.insights_en, q.lang) ELSE q.insights_en
             summary == JObj(With(One("reasoning", JText(q.reasoning_localized)),
                                  "educational_insights", JText(insights_localized)))
             tr == q.result.v["textResult"]
             text_result == JObj(With(tr, "localized_summary", summary))
         IN  Goto(r, "store",
                  [q EXCEPT !.result = JObj(With(q.result, "textResult", text_result)),
                            !.reasoning_en = <<>>, !.insights_en = <<>>,
                            !.reasoning_localized = <<>>],
                  <<"translate_insights">>)
    /\ UNCHANGED <<users_vars, results_vars, unique_gid, clean_vars, temp_video>>

(***************************************************************************)
(* update_analysis_results                                                 *)
(***************************************************************************)
RowsOf(rows, url) == {row \in rows : row.url = url}

\* INSERT ... ON CONFLICT (url) DO UPDATE SET result_json = EXCLUDED.result_json
\* The mutant of Upsert: ON CONFLICT (url) DO NOTHING.
UpsertDoNothing(rows, url, result_json) ==
    IF RowsOf(rows, url) # {} THEN rows
    ELSE rows \cup {[url |-> url, result_json |-> result_json]}

Upsert(rows, url, result_json) ==
    IF RowsOf(rows, url) # {}
    THEN {IF row.url = url THEN [row EXCEPT !.result_json = result_json] ELSE row : row \in rows}
    ELSE rows \cup {[url |-> url, result_json |-> result_json]}

\* The results a direct call of update_analysis_results is given.
CallResults == {JObj(One("textResult", JObj(One("label", JStr(l))))) : l \in {"LABEL_0", "LABEL_1"}}

\* A direct call update_analysis_results(url, analysis_result).
CallUpdateAnalysisResults(r) ==
    /\ pc[r] = "idle"
    /\ \E u \in Urls, res \in CallResults :
         Goto(r, "store", [Fresh("call_upsert", "analyze") EXCEPT !.url = u, !.result = res], <<>>)
    /\ UNCHANGED <<users_vars, results_vars, unique_gid, clean_vars, temp_video>>

\* update_analysis_results raised DatabaseError: analyze_article logs it and
\* returns the result (check_text.py 916-921).
UpsertFailed(r, q, evs) ==
    IF q.kind = "call_upsert"
    THEN Finish(r, [q EXCEPT !.conn = Release(@), !.exc = "DatabaseError"], evs)
    ELSE ReturnAnalysis(r, [q EXCEPT !.exc = "DatabaseError"], q.result, evs)

\* conn = get_db_connection()
StoreConnect(r) ==
    /\ pc[r] = "store"
    /\ \/ Goto(r, "upsert_execute", [rq[r] EXCEPT !.conn = TRUE], <<"update_analysis_results", "connect">>)
       \/ UpsertFailed(r, rq[r], <<"update_analysis_results", "connect">>)
    /\ UNCHANGED <<users_vars, results_vars, unique_gid, clean_vars, temp_video>>

\* cursor.execute(INSERT ... ON CONFLICT ...): the statement waits while
\* another open transaction holds the row of this url, then holds it.
UpsertExecute(r) ==
    /\ pc[r] = "upsert_execute"
    /\ \/ /\ UpsertFailed(r, rq[r], <<"results.upsert">>)
          /\ UNCHANGED row_lock
       \/ /\ row_lock[rq[r].url] = 0
          /\ row_lock' = [row_lock EXCEPT ![rq[r].url] = r]
          /\ Goto(r, "upsert_commit", rq[r], <<"results.upsert">>)
    /\ UNCHANGED <<users_vars, results, commits, unique_gid, clean_vars, temp_video>>

\* conn.commit(): the row becomes the table's; a failed commit rolls back.
UpsertCommit(r) ==
    /\ pc[r] = "upsert_commit"
    /\ row_lock' = [row_lock EXCEPT ![rq[r].url] = 0]
    /\ \/ /\ UpsertFailed(r, rq[r], <<"results.commit">>)
          /\ UNCHANGED <<results, commits>>
       \/ /\ results' = Upsert(results, rq[r].url, rq[r].result)
          /\ commits' = [commits EXCEPT ![rq[r].url] = Append(@, rq[r].result)]
          /\ ReturnAnalysis(r, rq[r], rq[r].result, <<"results.commit">>)
    /\ UNCHANGED <<users_vars, unique_gid, clean_vars, temp_video>>

(***************************************************************************)
(* Specifications                                                          *)
(***************************************************************************)
Init ==
    /\ PipelineIdle
    /\ unique_gid \in BOOLEAN
    /\ cl_json = <<>>
    /\ cl_text = <<>>
    /\ cl_out = <<>>
    /\ cl_done = FALSE

\* The steps every request or call shares.
Step(r) ==
    \/ VerifyToken(r)
    \/ UserConnect(r)
    \/ UserSelect(r)
    \/ UserInsert(r)
    \/ UserCommit(r)
    \/ HandleAnalyze(r)
    \/ HandleMedia(r)
    \/ RunMediaLogic(r)
    \/ DetectLanguage(r)
    \/ GenerateContent(r)
    \/ TranslateReasoning(r)
    \/ TranslateInsights(r)
    \/ StoreConnect(r)
    \/ UpsertExecute(r)
    \/ UpsertCommit(r)

\* HTTP requests to the two backends, served concurrently.
Next == \E r \in Reqs : Receive(r) \/ Step(r)
Spec == Init /\ [][Next]_vars

\* Direct calls of get_or_create_user, running concurrently.
NextUser ==
    \E r \in Reqs :
        \/ CallGetOrCreateUser(r) \/ UserConnect(r) \/ UserSelect(r)
        \/ UserInsert(r) \/ UserCommit(r)
SpecUser == Init /\ [][NextUser]_vars

\* Direct calls of update_analysis_results, running concurrently.
NextUpsert ==
    \E r \in Reqs :
        CallUpdateAnalysisResults(r) \/ StoreConnect(r) \/ UpsertExecute(r) \/ UpsertCommit(r)
SpecUpsert == Init /\ [][NextUpsert]_vars

\* Direct calls of analyze_article, running concurrently.
NextAnalyze ==
    \E r \in Reqs :
        \/ CallAnalyzeArticle(r)
        \/ DetectLanguage(r)
        \/ GenerateContent(r)
        \/ TranslateReasoning(r)
        \/ TranslateInsights(r)
        \/ StoreConnect(r)
        \/ UpsertExecute(r)
        \/ UpsertCommit(r)
SpecAnalyze == Init /\ [][NextAnalyze]_vars

(***************************************************************************)
(* check_video.py: POST /analyze-video                                     *)
(***************************************************************************)
\* An upload is written in NChunks chunks (FileStorage.save copies the stream
\* buffer by buffer).
NChunks == 2
Upload(r) == [i \in 1..NChunks |-> r]

FreshVideo ==
    [kind |-> "video", has_video |-> FALSE, fd |-> 0, written |-> 0, saved |-> FALSE,
     classified |-> FALSE, read |-> <<>>, refused |-> FALSE, result |-> "none",
     status |-> 0, body |-> JNull]

\* write(chunk k of r) through a descriptor at offset k - 1
WriteAt(data, k, r) ==
    [i \in 1..(IF Len(data) > k THEN Len(data) ELSE k) |->
        IF i = k THEN r ELSE IF i <= Len(data) THEN data[i] ELSE 0]

\* if 'video' not in request.files: 400; else video_file.save(video_path)
\* opens temp_video.mp4 for writing, which creates it or truncates it.
VideoReceive(r) ==
    /\ pc[r] = "idle"
    /\ \E has_video \in BOOLEAN :
         IF ~has_video
         THEN /\ Finish(r, Respond(FreshVideo, 400, ErrBody(<<"No video file provided.">>)),
                        <<"respond">>)
              /\ UNCHANGED temp_video
         ELSE LET file == IF temp_video.exists THEN [temp_video EXCEPT !.data = <<>>]
                          ELSE [exists |-> TRUE, ino |-> temp_video.ino + 1, data |-> <<>>]
              IN  /\ temp_video' = file
                  /\ Goto(r, "vid_write",
                          [FreshVideo EXCEPT !.has_video = TRUE, !.fd = file.ino], <<"open">>)
    /\ UNCHANGED <<users_vars, results_vars, unique_gid, clean_vars>>

\* save, one chunk: the write goes to the file the descriptor was opened on,
\* which the path names unless the file was removed meanwhile.
VideoWrite(r) ==
    /\ pc[r] = "vid_write"
    /\ LET q == rq[r]
           k == q.written + 1
           qw == [q EXCEPT !.written = k, !.saved = (k = NChunks)]
       IN  /\ temp_video' =
                IF temp_video.exists /\ temp_video.ino = q.fd
                THEN [temp_video EXCEPT !.data = WriteAt(@, k, r)]
                ELSE temp_video
           /\ Goto(r, IF k = NChunks THEN "vid_classify" ELSE "vid_write", qw, <<"write">>)
    /\ UNCHANGED <<users_vars, results_vars, unique_gid, clean_vars>>

\* result = pipe(video_path): the pipeline reads what the path names now; a
\* missing file raises, what was read is classified or raises, the pipeline
\* with PipelineException or the reading and formatting with another
\* exception.
VideoClassify(r) ==
    /\ pc[r] = "vid_classify"
    /\ LET q == [rq[r] EXCEPT !.classified = TRUE]
       IN  IF ~temp_video.exists
           THEN Goto(r, "vid_exists", [q EXCEPT !.result = "raised"], <<"pipe">>)
           ELSE \E outcome \in {"formatted", "pipeline_raised", "raised"} :
                  Goto(r, "vid_exists",
                       [q EXCEPT !.read = temp_video.data, !.result = outcome], <<"pipe">>)
    /\ UNCHANGED <<users_vars, results_vars, unique_gid, clean_vars, temp_video>>

\* The response the try block returned: the formatted result, or 500 for
\* PipelineException and 500 for every other exception (check_video.py 30-34).
VideoResponse(q) ==
    IF q.result = "formatted" THEN Respond(q, 200, JStr("Real: ...% confident"))
    ELSE IF q.result = "pipeline_raised"
    THEN Respond(q, 500, ErrBody(<<"Pipeline error: ", "str(e)">>))
    ELSE Respond(q, 500, ErrBody(<<"str(e)">>))

\* finally: if os.path.exists(video_path)
CleanupNeeded(exists) == exists

VideoExists(r) ==
    /\ pc[r] = "vid_exists"
    /\ IF CleanupNeeded(temp_video.exists)
       THEN Goto(r, "vid_remove", rq[r], <<"exists">>)
       ELSE Finish(r, VideoResponse(rq[r]), <<"exists", "respond">>)
    /\ UNCHANGED <<users_vars, results_vars, unique_gid, clean_vars, temp_video>>

\* os.remove(video_path): the file is removed; or the removal is refused with
\* PermissionError, which is printed; or the file is gone by now and the
\* FileNotFoundError leaves the handler (Flask answers 500).
VideoRemove(r) ==
    /\ pc[r] = "vid_remove"
    /\ IF temp_video.exists
       THEN \/ /\ temp_video' = [temp_video EXCEPT !.exists = FALSE, !.data = <<>>]
               /\ Finish(r, VideoResponse(rq[r]), <<"remove", "respond">>)
            \/ /\ UNCHANGED temp_video
               /\ Finish(r, VideoResponse([rq[r] EXCEPT !.refused = TRUE]), <<"remove", "respond">>)
       ELSE /\ UNCHANGED temp_video
            /\ Finish(r, Respond([rq[r] EXCEPT !.result = "cleanup_raised"], 500, JNull),
                      <<"remove", "respond">>)
    /\ UNCHANGED <<users_vars, results_vars, unique_gid, clean_vars>>

\* POST /analyze-video requests, served concurrently.
NextVideo ==
    \E r \in Reqs :
        VideoReceive(r) \/ VideoWrite(r) \/ VideoClassify(r) \/ VideoExists(r) \/ VideoRemove(r)
SpecVideo == Init /\ [][NextVideo]_vars

(***************************************************************************)
(* fact_check_claims                                                       *)
(***************************************************************************)
FACT_CHECK_CLAIM_LIMIT == 3
FACT_CHECK_QUERY_SIZE_LIMIT == 500

\* A claim is a text: what it says (id) and its number of characters.
ClaimText(id, len) == [id |-> id, len |-> len]

\* The claim lists passed: none, one, exactly the limit, more than the limit;
\* texts shorter than, as long as and longer than the query size limit.
ClaimLists ==
    { <<>>,
      <<ClaimText("c3", 501)>>,
      <<ClaimText("c1", 20), ClaimText("c3", 501)>>,
      <<ClaimText("c3", 501), ClaimText("c2", 500), ClaimText("c1", 20)>>,
      <<ClaimText("c1", 20), ClaimText("c2", 500), ClaimText("c3", 501), ClaimText("c4", 620)>>,
      <<ClaimText("c4", 620), ClaimText("c3", 501), ClaimText("c1", 20), ClaimText("c2", 500)>> }

\* claims[:FACT_CHECK_CLAIM_LIMIT]
\* The mutant of ClaimsToCheck: every claim is checked.
ClaimsToCheckAll(claims) == claims

ClaimsToCheck(claims) ==
    SubSeq(claims, 1, IF Len(claims) < FACT_CHECK_CLAIM_LIMIT THEN Len(claims)
                      ELSE FACT_CHECK_CLAIM_LIMIT)

\* claim_text[:FACT_CHECK_QUERY_SIZE_LIMIT]
Truncate(claim_text) ==
    [claim_text EXCEPT !.len = IF @ < FACT_CHECK_QUERY_SIZE_LIMIT THEN @
                                ELSE FACT_CHECK_QUERY_SIZE_LIMIT]

\* A key the API's answer does not hold.
Absent == ClaimText("<absent>", 0)

\* The first review of the first claim of an answer: the claim's text, the
\* publisher's name, and the review's title, url and textualRating, each
\* present or not.
Review(text, publisher, title, url, rating) ==
    [text |-> text, publisher |-> publisher, title |-> title, url |-> url,
     textualRating |-> rating]
Reviews ==
    { Review(ClaimText("api text", 30), ClaimText("pub", 3), ClaimText("title", 5),
             ClaimText("https://r", 9), ClaimText("False", 5)),
      Review(Absent, ClaimText("pub", 3), ClaimText("title", 5),
             ClaimText("https://r", 9), ClaimText("False", 5)),
      Review(ClaimText("api text", 30), Absent, Absent, Absent, Absent),
      Review(Absent, Absent, Absent, Absent, Absent) }

\* What the Fact Check API does with one query: it answers with a review, it
\* answers with no usable review (no claims, no claimReview, or one of them
\* of another type), or the request fails (timeout, HTTP error, undecodable
\* body).
FactCheckOutcomes ==
    {[kind |-> "review", review |-> rv] : rv \in Reviews}
        \cup {[kind |-> k, review |-> Review(Absent, Absent, Absent, Absent, Absent)] : k \in {"empty", "failed"}}

\* dict.get(key, default)
Get(field, default) == IF field = Absent THEN default ELSE field

\* The dictionary appended for a review (check_text.py 509-515).
ReviewResult(rv, claim_text) ==
    [source |-> Get(rv.publisher, ClaimText("Unknown Source", 14)),
     title |-> Get(rv.title, Get(rv.text, ClaimText("N/A", 3))),
     url |-> Get(rv.url, ClaimText("#", 1)),
     claim |-> Get(rv.text, claim_text),
     review_rating |-> Get(rv.textualRating, ClaimText("N/A", 3))]

\* After the loop: raise if any request failed, else return what was found.
\* The mutant of LoopResult: what was found is returned whatever failed.
LoopResultPartial(q) == [q EXCEPT !.returned = TRUE, !.value = q.all_results]

LoopResult(q) ==
    IF q.tool_errors # <<>> THEN [q EXCEPT !.exc = "ApiError"]
    ELSE [q EXCEPT !.returned = TRUE, !.value = q.all_results]

FreshFactCheck(configured, claims) ==
    [kind |-> "call_fact_check", configured |-> configured, claims |-> claims,
     claims_to_check |-> <<>>, queries |-> <<>>, outcomes |-> <<>>,
     all_results |-> <<>>, tool_errors |-> <<>>,
     exc |-> "none", returned |-> FALSE, value |-> <<>>]

\* A call fact_check_claims(claims), with the API key configured or not.
CallFactCheckClaims(r) ==
    /\ pc[r] = "idle"
    /\ \E configured \in BOOLEAN, claims \in ClaimLists :
         LET q == FreshFactCheck(configured, claims)
         IN  IF ~configured
             THEN Finish(r, [q EXCEPT !.exc = "ConfigurationError"], <<"fact_check_claims">>)
             ELSE IF claims = <<>>
             THEN Finish(r, [q EXCEPT !.returned = TRUE], <<"fact_check_claims">>)
             ELSE Goto(r, "fact_check_query",
                       [q EXCEPT !.claims_to_check = ClaimsToCheck(claims)],
                       <<"fact_check_claims">>)
    /\ UNCHANGED <<users_vars, results_vars, unique_gid, clean_vars, temp_video>>

\* One turn of the loop: requests.get with query = truncated_claim, then the
\* result is appended or the error is noted; after the last turn the call
\* raises or returns.
FactCheckQuery(r) ==
    /\ pc[r] = "fact_check_query"
    /\ \E outcome \in FactCheckOutcomes :
         LET q0 == rq[r]
             i == Len(q0.queries) + 1
             claim_text == q0.claims_to_check[i]
             truncated_claim == Truncate(claim_text)
             q == [q0 EXCEPT
                     !.queries = Append(@, truncated_claim),
                     !.outcomes = Append(@, outcome),
                     !.all_results =
                        IF outcome.kind = "review"
                        THEN Append(@, ReviewResult(outcome.review, claim_text)) ELSE @,
                     !.tool_errors =
                        IF outcome.kind = "failed" THEN Append(@, truncated_claim) ELSE @]
         IN  IF i < Len(q0.claims_to_check)
             THEN Goto(r, "fact_check_query", q, <<"fact_check.get">>)
             ELSE Finish(r, LoopResult(q), <<"fact_check.get">>)
    /\ UNCHANGED <<users_vars, results_vars, unique_gid, clean_vars, temp_video>>

\* Direct calls of fact_check_claims, running concurrently.
NextFactCheck == \E r \in Reqs : CallFactCheckClaims(r) \/ FactCheckQuery(r)
SpecFactCheck == Init /\ [][NextFactCheck]_vars

(***************************************************************************)
(* check_database_for_url                                                  *)
(***************************************************************************)
VERDICT_REAL == "real"
VERDICT_FAKE == "fake"
VERDICT_NOT_FOUND == "not_found"

\* What the verdict column of a row of url_verdicts may hold (the repository
\* holds no schema): one of the two verdicts, another text, the empty text,
\* or NULL, which fetchone gives as None.
StoredVerdicts == {VERDICT_REAL, VERDICT_FAKE, "satire", "", "None"}

\* URLs as texts: a scheme with its "//", the labels of the host, a path.
DbUrls ==
    { <<>>,
      <<"example.com", "/a">>,
      <<"https://", "www.">>,
      <<"https://", "/a">>,
      <<"https://", "www.", "Real.com", "/a">>,
      <<"https://", "fake.com">>,
      <<"http://", "unknown.org", "/x">> }

\* urlparse(url).netloc: what stands between the "//" of the scheme and the
\* path; empty without a scheme.
Netloc(url) ==
    IF url = <<>> \/ Head(url) \notin {"https://", "http://"} THEN <<>>
    ELSE LET rest == Tail(url)
             IsPath(tok) == tok \in {"/a", "/x"}
             stop == CHOOSE k \in 1..(Len(rest) + 1) :
                        /\ k = Len(rest) + 1 \/ IsPath(rest[k])
                        /\ \A j \in 1..(k - 1) : ~IsPath(rest[j])
         IN  SubSeq(rest, 1, stop - 1)

\* str.lower()
Lower(domain) ==
    [i \in 1..Len(domain) |-> IF domain[i] = "Real.com" THEN "real.com" ELSE domain[i]]

\* extract_domain_from_url: the netloc without a leading 'www.', lower-cased;
\* None (the empty text here) when nothing is left.
ExtractDomain(url) ==
    LET netloc == Netloc(url)
        domain == IF StartsWith(netloc, <<"www.">>) THEN DropFirst(netloc, 1) ELSE netloc
    IN  Lower(domain)

\* A call check_database_for_url(url).
CallCheckDatabaseForUrl(r) ==
    /\ pc[r] = "idle"
    /\ \E url \in DbUrls :
         LET q == [kind |-> "call_check_db", url |-> url, domain |-> ExtractDomain(url),
                   conn |-> FALSE, exc |-> "none", returned |-> FALSE, value |-> ""]
         IN  IF q.domain = <<>>
             THEN Finish(r, [q EXCEPT !.returned = TRUE, !.value = "invalid_url"],
                         <<"check_database_for_url">>)
             ELSE Goto(r, "verdict_connect", q, <<"check_database_for_url">>)
    /\ UNCHANGED <<users_vars, results_vars, unique_gid, clean_vars, temp_video>>

\* conn = get_db_connection()
VerdictConnect(r) ==
    /\ pc[r] = "verdict_connect"
    /\ \/ Goto(r, "verdict_select", [rq[r] EXCEPT !.conn = TRUE], <<"connect">>)
       \/ Finish(r, [rq[r] EXCEPT !.exc = "DatabaseError"], <<"connect">>)
    /\ UNCHANGED <<users_vars, results_vars, unique_gid, clean_vars, temp_video>>

\* SELECT verdict FROM url_verdicts WHERE domain = %s; fetchone(): the query
\* fails, or finds a row of the domain, whose verdict is returned as it is
\* stored, or finds none; finally the connection is released.
VerdictSelect(r) ==
    /\ pc[r] = "verdict_select"
    /\ LET q == [rq[r] EXCEPT !.conn = Release(@)]
       IN  \/ Finish(r, [q EXCEPT !.exc = "DatabaseError"], <<"url_verdicts.select", "close">>)
           \/ \E verdict \in StoredVerdicts :
                Finish(r, [q EXCEPT !.returned = TRUE, !.value = verdict],
                       <<"url_verdicts.select", "close">>)
           \/ Finish(r, [q EXCEPT !.returned = TRUE, !.value = VERDICT_NOT_FOUND],
                     <<"url_verdicts.select", "close">>)
    /\ UNCHANGED <<users_vars, results_vars, unique_gid, clean_vars, temp_video>>

\* Direct calls of check_database_for_url, running concurrently.
NextCheckDb ==
    \E r \in Reqs : CallCheckDatabaseForUrl(r) \/ VerdictConnect(r) \/ VerdictSelect(r)
SpecCheckDb == Init /\ [][NextCheckDb]_vars

(***************************************************************************)
(* check_media.py: GET / (health check)                                    *)
(***************************************************************************)
HealthResponse(q, db_status) ==
    Respond([q EXCEPT !.db_status = db_status], 200,
            JObj(With(One("status", JStr("running")),
                      "database_connection_status", JStr(db_status))))

\* GET /: with no connector the database is not asked.
HealthCheck(r) ==
    /\ pc[r] = "idle"
    /\ \E connector \in BOOLEAN :
         LET q == [kind |-> "health", connector |-> connector, conn |-> FALSE,
                   db_status |-> "Unknown", status |-> 0, body |-> JNull]
         IN  IF connector THEN Goto(r, "health_connect", q, <<>>)
             ELSE Finish(r, HealthResponse(q, "Connector not initialized"), <<"respond">>)
    /\ UNCHANGED <<users_vars, results_vars, unique_gid, clean_vars, temp_video>>

\* conn = get_db_connection(), or the exception that sets db_status
HealthConnect(r) ==
    /\ pc[r] = "health_connect"
    /\ \/ Goto(r, "health_release", [rq[r] EXCEPT !.conn = TRUE], <<"connect">>)
       \/ Finish(r, HealthResponse(rq[r], "Connection Error"), <<"connect", "respond">>)
    /\ UNCHANGED <<users_vars, results_vars, unique_gid, clean_vars, temp_video>>

\* release_db_connection(conn); db_status = "Connected"
HealthRelease(r) ==
    /\ pc[r] = "health_release"
    /\ Finish(r, HealthResponse([rq[r] EXCEPT !.conn = Release(@)], "Connected"),
              <<"close", "respond">>)
    /\ UNCHANGED <<users_vars, results_vars, unique_gid, clean_vars, temp_video>>

\* The functions that open a database connection, called concurrently.
NextDb ==
    \E r \in Reqs :
        \/ CallGetOrCreateUser(r) \/ UserConnect(r) \/ UserSelect(r)
        \/ UserInsert(r) \/ UserCommit(r)
        \/ CallUpdateAnalysisResults(r) \/ StoreConnect(r) \/ UpsertExecute(r) \/ UpsertCommit(r)
        \/ CallCheckDatabaseForUrl(r) \/ VerdictConnect(r) \/ VerdictSelect(r)
        \/ HealthCheck(r) \/ HealthConnect(r) \/ HealthRelease(r)
SpecDb == Init /\ [][NextDb]_vars

(***************************************************************************)
(* Properties                                                              *)
(***************************************************************************)
Started(r) == rq[r].kind # "none"
Http(r) == rq[r].kind = "http"
Done(r) == pc[r] = "done"
Called(r, ev) == \E i \in 1..Len(log[r]) : log[r][i] = ev
Count(r, ev) == Cardinality({i \in 1..Len(log[r]) : log[r][i] = ev})
DbCalls == {"get_or_create_user", "connect", "users.select", "users.insert", "users.commit",
            "update_analysis_results", "results.upsert", "results.commit"}

\* The header is missing, is of another scheme, or carries no token.
NoBearerToken(h) == h = <<>> \/ Head(h) # "Bearer " \/ Tail(h) = <<>>

\* C1: on every run of analyze_article that calls the model, the database
\* domain lookup, the web search and the fact-check call have all completed
\* before generate_content is invoked.
ToolCalls == {"check_database_for_url", "search_google_for_context", "fact_check_claims"}
C1_ToolsBeforeModel ==
    \A r \in Reqs : \A j \in 1..Len(log[r]) :
        log[r][j] = "generate_content"
            => \A tool \in ToolCalls : \E i \in 1..(j - 1) : log[r][i] = tool

\* C2: a POST /analyze whose Authorization header is missing, does not start
\* with 'Bearer ', or carries an empty token is answered 401 with an 'error'
\* key in the body, and makes no userinfo call, no database access and no
\* model call.
C2_NoTokenIs401 ==
    \A r \in Reqs :
        (Http(r) /\ rq[r].endpoint = "analyze" /\ NoBearerToken(rq[r].header))
            => /\ Done(r)
               /\ rq[r].status = 401
               /\ HasKey(rq[r].body, "error")
               /\ ~Called(r, "userinfo")
               /\ ~Called(r, "generate_content")
               /\ \A ev \in DbCalls : ~Called(r, ev)

C2_Witness ==
    \E r1, r2 \in Reqs :
        /\ rq[r1].kind = "http" /\ rq[r1].endpoint = "analyze"
        /\ rq[r1].header = <<"Basic ", "tokA">> /\ rq[r1].status = 401
        /\ rq[r2].kind = "http" /\ rq[r2].endpoint = "analyze"
        /\ rq[r2].header = <<"Bearer ">> /\ rq[r2].status = 401

\* C3: on /analyze_video and /analyze_audio the response is 401 when the
\* token is missing or invalid, 403 when the token is valid and the tier read
\* for the user is not 'paid'; the analysis runs only for a valid token whose
\* users row has the tier 'paid'; 401 and 403 bodies hold an 'error' key.
PaidEndpoint(r) == Http(r) /\ rq[r].endpoint \in {"analyze_video", "analyze_audio"}
C3_PaidTierOnly ==
    \A r \in Reqs :
        PaidEndpoint(r) =>
            /\ (Done(r) /\ rq[r].verify # "ok") => rq[r].status = 401
            /\ (rq[r].verify = "ok" /\ rq[r].g_user.tier \notin {"none", PAID_TIER})
                   => (Done(r) /\ rq[r].status = 403)
            /\ (rq[r].handler_ran \/ Called(r, "analysis_logic"))
                   => /\ rq[r].verify = "ok"
                      /\ \E u \in users : /\ u.google_id = TokenSubject(rq[r].token).id
                                          /\ u.id = rq[r].g_user.id
                                          /\ u.tier = PAID_TIER
            /\ rq[r].status \in {401, 403} => HasKey(rq[r].body, "error")

C3_Witness ==
    \E r1, r2 \in Reqs :
        /\ PaidEndpoint(r1) /\ rq[r1].verify = "ok" /\ rq[r1].status = 403
        /\ PaidEndpoint(r2) /\ Called(r2, "analysis_logic") /\ rq[r2].status = 200

\* C4: a POST /analyze_image with no Authorization header is processed
\* without authentication: the handler runs.
C4_ImageIsPublic ==
    \A r \in Reqs :
        (Http(r) /\ rq[r].endpoint = "analyze_image" /\ rq[r].header = <<>> /\ Done(r))
            => rq[r].handler_ran

\* C5: every dictionary analyze_article returns has a 'textResult' key whose
\* value holds an 'error' key or both a 'label' and a 'score' key.
WellFormedResult(result) ==
    /\ HasKey(result, "textResult")
    /\ LET tr == result.v["textResult"]
       IN  HasKey(tr, "error") \/ (HasKey(tr, "label") /\ HasKey(tr, "score"))
C5_ResultFormat ==
    \A r \in Reqs : (rq[r].kind = "call_analyze" /\ Done(r)) => WellFormedResult(rq[r].result)

\* C6: after any interleaving of committed update_analysis_results calls the
\* table holds, for each url written, exactly one row, whose result_json is
\* what the last committed call wrote; a url no call committed has no row.
C6_LastWriteWins ==
    \A u \in Urls :
        RowsOf(results, u) =
            IF commits[u] = <<>> THEN {}
            ELSE {[url |-> u, result_json |-> commits[u][Len(commits[u])]]}

C6_Witness ==
    \E u \in Urls :
        /\ Len(commits[u]) = 2
        /\ commits[u][1] # commits[u][2]
        /\ \A r \in Reqs : Done(r)

\* C7: get_or_create_user with a non-empty google_id returns the id and tier
\* of an existing row of that google_id and inserts nothing, or, none having
\* been found, inserts exactly one row with tier 'free' and the given email
\* and returns its id and tier; with an empty google_id it raises
\* AuthenticationError before opening any connection.  (A call that a
\* database failure ends raises, and returns nothing.)
Creators == {r \in Reqs : Started(r) /\ rq[r].created}
C7_GetOrCreateUser ==
    /\ Cardinality(users) = Cardinality(InitialUsers) + Cardinality(Creators)
    /\ \A r \in Reqs :
         (rq[r].kind = "call_user" /\ Done(r)) =>
            /\ rq[r].google_id = ""
                 => rq[r].exc = "AuthenticationError" /\ ~Called(r, "connect")
            /\ rq[r].google_id # "" => rq[r].exc # "AuthenticationError"
            /\ (rq[r].exc = "none" /\ ~rq[r].created)
                 => /\ ~Called(r, "users.insert")
                    /\ \E u \in users : /\ u.google_id = rq[r].google_id
                                        /\ rq[r].db_user = [id |-> u.id, tier |-> u.tier]
            /\ (rq[r].exc = "none" /\ rq[r].created)
                 => /\ rq[r].db_user.tier = DEFAULT_USER_TIER
                    /\ {u \in users : u.id = rq[r].db_user.id}
                          = {[id |-> rq[r].db_user.id, google_id |-> rq[r].google_id,
                              email |-> rq[r].email, tier |-> "free"]}

C7_Witness ==
    \E r1, r2 \in Reqs :
        /\ rq[r1].kind = "call_user" /\ Done(r1) /\ rq[r1].created
        /\ rq[r2].kind = "call_user" /\ Done(r2) /\ ~rq[r2].created
        /\ rq[r2].exc = "none" /\ rq[r2].db_user = rq[r1].db_user

\* C8: a successful /analyze request makes its calls in one order: userinfo,
\* user lookup/creation, language detection, model generation, JSON parsing,
\* the two translations (only when the detected language is not 'en'), the
\* upsert of the result, the response.
MainCalls == {"userinfo", "get_or_create_user", "detect_language", "generate_content",
              "json.loads", "translate_reasoning", "translate_insights",
              "update_analysis_results", "respond"}
IsMainCall(ev) == ev \in MainCalls
BeforeTranslation ==
    <<"userinfo", "get_or_create_user", "detect_language", "generate_content", "json.loads">>
AfterTranslation == <<"update_analysis_results", "respond">>
C8_FixedOrder ==
    \A r \in Reqs :
        (Http(r) /\ rq[r].endpoint = "analyze" /\ Done(r) /\ rq[r].status = 200) =>
            LET calls == SelectSeq(log[r], IsMainCall)
            IN  \/ calls = BeforeTranslation \o AfterTranslation
                \/ /\ calls = BeforeTranslation
                                \o <<"translate_reasoning", "translate_insights">>
                                \o AfterTranslation
                   /\ rq[r].lang # "en"

C8_Witness ==
    \E r1, r2 \in Reqs :
        /\ Http(r1) /\ rq[r1].status = 200 /\ rq[r1].lang = "hi"
        /\ Called(r1, "translate_insights") /\ Called(r1, "results.commit")
        /\ Http(r2) /\ rq[r2].status = 200 /\ rq[r2].lang = "en"
        /\ rq[r2].endpoint = "analyze"

\* C9: while serving one request each external call (userinfo, language
\* detection, model generation, each translation, the result upsert) is made
\* at most once, also after it failed or timed out.
ExternalCalls == {"userinfo", "detect_language", "generate_content", "translate_reasoning",
                  "translate_insights", "update_analysis_results", "results.upsert",
                  "results.commit", "get_or_create_user", "users.select", "users.insert",
                  "users.commit"}
C9_NoRetry == \A r \in Reqs : \A ev \in ExternalCalls : Count(r, ev) <= 1

C9_Witness ==
    \E r1, r2 \in Reqs :
        /\ Http(r1) /\ Done(r1) /\ rq[r1].verify = "timeout" /\ Count(r1, "userinfo") = 1
        /\ Http(r2) /\ Done(r2) /\ rq[r2].exc = "DatabaseError" /\ rq[r2].status = 200
        /\ Count(r2, "update_analysis_results") = 1

\* C11: update_analysis_results is called only after json.loads of the
\* cleaned model text succeeded; a call of analyze_article that lacks an input
\* or returns one of its own error dictionaries makes no call of it, and no
\* row of analysis_results holds such a dictionary or an empty url.
OwnErrorResults ==
    {MissingInputResult, InvalidJsonResult, NoTextResult, ToolErrorResult, UnexpectedResult}
PersistCalls == {"update_analysis_results", "results.upsert", "results.commit"}
Persisted(r) == \E ev \in PersistCalls : Called(r, ev)
C11_PersistOnlyParsed ==
    /\ \A row \in results : row.url # "" /\ row.result_json \notin OwnErrorResults
    /\ \A r \in Reqs :
         rq[r].kind = "call_analyze" =>
            /\ \A j \in 1..Len(log[r]) :
                 log[r][j] \in PersistCalls
                    => rq[r].parsed /\ \E i \in 1..(j - 1) : log[r][i] = "json.loads"
            /\ (rq[r].url = "" \/ rq[r].article_text = "") => ~Persisted(r)
            /\ (Done(r) /\ rq[r].result \in OwnErrorResults) => ~Persisted(r)

C11_Witness ==
    \E r1, r2 \in Reqs :
        /\ rq[r1].kind = "call_analyze" /\ Done(r1) /\ rq[r1].result = InvalidJsonResult
        /\ rq[r2].kind = "call_analyze" /\ Done(r2) /\ Called(r2, "results.commit")
        /\ rq[r2].exc = "none" /\ results # {}

\* C12: the status of a /analyze response whose analysis returned is 200
\* exactly when textResult holds no 'error' key, and then the body is the
\* result with its 'textResult'; with an error text holding 'Analysis failed
\* due to tool error' it is 502, with one holding 'URL and article text must
\* be provided' it is 400, with every other error it is 500.
ErrorText(tr) ==
    IF tr.kind = "obj" /\ "error" \in DOMAIN tr.v /\ tr.v["error"].kind = "str"
    THEN tr.v["error"].v
    ELSE <<>>
Holds(msg, part) == \E i \in 1..Len(msg) : msg[i] = part
C12_StatusOfResult ==
    \A r \in Reqs :
        (Http(r) /\ rq[r].endpoint = "analyze" /\ Done(r) /\ rq[r].result # JNull) =>
            LET tr == rq[r].result.v["textResult"]
                msg == ErrorText(tr)
            IN  /\ rq[r].status = 200 <=> ~In("error", tr)
                /\ rq[r].status = 200
                     => rq[r].body = rq[r].result /\ HasKey(rq[r].body, "textResult")
                /\ In("error", tr)
                     => rq[r].status =
                          IF Holds(msg, "Analysis failed due to tool error") THEN 502
                          ELSE IF Holds(msg, "URL and article text must be provided") THEN 400
                          ELSE 500

\* C13: whatever way the userinfo call fails (timeout, HTTP status, network
\* error, undecodable body, body without 'id'), verify_google_access_token
\* raises AuthenticationError: both decorators answer 401 with an 'error' key
\* and neither the user lookup nor the handler runs.
C13_VerifyFailureIs401 ==
    \A r \in Reqs :
        (Http(r) /\ rq[r].verify \in UserinfoFailures) =>
            /\ Done(r)
            /\ rq[r].exc = "AuthenticationError"
            /\ rq[r].status = 401
            /\ HasKey(rq[r].body, "error")
            /\ ~rq[r].handler_ran
            /\ \A ev \in DbCalls \cup {"analysis_logic", "generate_content"} : ~Called(r, ev)

C13_Witness ==
    \E r1, r2 \in Reqs :
        /\ Http(r1) /\ rq[r1].backend = "text" /\ rq[r1].verify = "bad_json"
        /\ rq[r1].status = 401
        /\ Http(r2) /\ rq[r2].backend = "media" /\ rq[r2].verify = "timeout"
        /\ rq[r2].status = 401

\* C14: when the body of a protected handler runs, the token was verified and
\* the user lookup/creation returned: g.user holds the google_id and email the
\* userinfo endpoint gave for the token and the id and tier of a users row of
\* that google_id; a DatabaseError of the lookup/creation is answered 500 and
\* the handler body does not run.
InHandler(r) == rq[r].handler_ran \/ pc[r] = "handler"
C14_HandlerRunsAuthenticated ==
    \A r \in Reqs :
        Http(r) =>
            /\ InHandler(r) =>
                 LET subject == TokenSubject(rq[r].token)
                 IN  /\ rq[r].verify = "ok"
                     /\ rq[r].token \in ValidTokens
                     /\ rq[r].g_user.google_id = subject.id
                     /\ rq[r].g_user.email = subject.email
                     /\ rq[r].db_user = [id |-> rq[r].g_user.id, tier |-> rq[r].g_user.tier]
                     /\ \E u \in users : /\ u.google_id = subject.id
                                         /\ u.id = rq[r].g_user.id
                                         /\ u.tier = rq[r].g_user.tier
            /\ (rq[r].exc = "DatabaseError" /\ ~Called(r, "update_analysis_results"))
                 => /\ Done(r)
                    /\ rq[r].status = 500
                    /\ HasKey(rq[r].body, "error")
                    /\ ~InHandler(r)

C14_Witness ==
    \E r1, r2 \in Reqs :
        /\ Http(r1) /\ rq[r1].handler_ran /\ rq[r1].created
        /\ Http(r2) /\ rq[r2].exc = "DatabaseError" /\ rq[r2].status = 500
        /\ Called(r2, "users.select")

\* C15: whatever the interleaving of concurrent authenticated requests of one
\* google_id, the users table holds at most one row of that google_id, no
\* request's INSERT is refused for a row another request committed meanwhile,
\* and every request that was authenticated holds the id of that row.
GoogleIds == {TokenSubject(tok).id : tok \in ValidTokens}
C15_OneRowPerGoogleId ==
    \A gid \in GoogleIds :
        LET rows == {u \in users : u.google_id = gid}
        IN  /\ Cardinality(rows) <= 1
            /\ \A r \in Reqs :
                 (Http(r) /\ rq[r].google_id = gid) =>
                    /\ ~Called(r, "unique_violation")
                    /\ rq[r].g_user # NoGUser => \A u \in rows : u.id = rq[r].g_user.id

\* C16: whatever the interleaving of concurrent /analyze-video requests, the
\* pipeline of each request reads from temp_video.mp4 the upload of that same
\* request, whole: no other request overwrote or removed it meanwhile.
Video(r) == rq[r].kind = "video"
C16_ReadsOwnUpload ==
    \A r \in Reqs : (Video(r) /\ rq[r].classified) => rq[r].read = Upload(r)

\* C17: once the response of a request that saved an upload is
\* produced, temp_video.mp4 does not exist; a request without a 'video' part
\* is answered 400 and creates no file.
C17_FileDeleted ==
    \A r \in Reqs :
        (Video(r) /\ Done(r)) =>
            /\ rq[r].saved => ~temp_video.exists
            /\ ~rq[r].has_video => rq[r].status = 400 /\ ~Called(r, "open")

\* C18: the step of a /analyze request in which update_analysis_results
\* raises DatabaseError leaves analysis_results as it was and returns the
\* parsed result as it was, no 'error' key added: a result without an 'error'
\* key is answered 200 with the result as the body.
Storing(r) == pc[r] \in {"store", "upsert_execute", "upsert_commit"}
PersistFails(r) ==
    /\ Http(r) /\ Storing(r)
    /\ rq[r].exc = "none" /\ rq'[r].exc = "DatabaseError"
C18_PersistFailureTolerated ==
    [][\A r \in Reqs :
          PersistFails(r) =>
             /\ results' = results
             /\ pc'[r] = "done"
             /\ rq[r].parsed
             /\ rq'[r].result = rq[r].result
             /\ ~HasError(rq[r].result)
                  => rq'[r].status = 200 /\ rq'[r].body = rq[r].result]_vars

\* C19: a response to a request whose handler body ran is never one of the
\* decorators' authentication failures ('Authentication failed: ...',
\* 'Unexpected server error during authentication', 'Server error during user
\* processing / authentication: ...').
AuthFailureTexts ==
    {"Authentication failed: ", "Unexpected server error during authentication",
     DbErrorPrefix("text"), DbErrorPrefix("media")}
AuthFailureBody(body) ==
    /\ HasKey(body, "error")
    /\ body.v["error"].kind = "str"
    /\ body.v["error"].v # <<>>
    /\ Head(body.v["error"].v) \in AuthFailureTexts
C19_HandlerFailureNotAuth ==
    \A r \in Reqs : (Http(r) /\ Done(r) /\ rq[r].handler_ran) => ~AuthFailureBody(rq[r].body)

\* C20: a media request that creates the users row of its google_id is
\* answered 403 and runs no analysis, while the row, of tier 'free', is
\* committed; no step changes or removes a users row; so every media request
\* authenticated for a google_id whose rows the backends created is answered
\* 403.
Media(r) == Http(r) /\ rq[r].backend = "media"
HandMade(gid) == \E u \in InitialUsers : u.google_id = gid
NewUserIsRefused ==
    \A r \in Reqs :
        (Media(r) /\ Done(r)) =>
            /\ rq[r].created =>
                 /\ rq[r].status = 403
                 /\ ~rq[r].handler_ran /\ ~Called(r, "analysis_logic")
                 /\ \E u \in users : /\ u.id = rq[r].db_user.id
                                     /\ u.google_id = rq[r].google_id
                                     /\ u.tier = "free"
            /\ (rq[r].db_user # NoUser /\ ~HandMade(rq[r].google_id)) =>
                 /\ rq[r].status = 403
                 /\ ~rq[r].handler_ran /\ ~Called(r, "analysis_logic")
C20_NewUserStaysFree ==
    /\ []NewUserIsRefused
    /\ [][\A u \in users : u \in users']_vars

C20_Witness ==
    \E r1, r2 \in Reqs :
        /\ Media(r1) /\ Done(r1) /\ rq[r1].created /\ rq[r1].status = 403
        /\ Media(r2) /\ Done(r2) /\ ~rq[r2].created /\ rq[r2].status = 403
        /\ rq[r2].db_user = rq[r1].db_user


\* C21: fact_check_claims queries at most the first 3 claims, in input order,
\* each query being the claim cut to its first 500 characters; it returns at
\* most one result per queried claim, in order, so at most min(len(claims), 3)
\* results; an empty claim list returns [] without any HTTP call.
FactCheck(r) == rq[r].kind = "call_fact_check"
Least(a, b) == IF a < b THEN a ELSE b
QueriesAreFirstClaims(q) ==
    /\ Len(q.queries) <= Least(Len(q.claims), 3)
    /\ \A i \in 1..Len(q.queries) :
         /\ q.queries[i].id = q.claims[i].id
         /\ q.queries[i].len = Least(q.claims[i].len, 500)
\* The queries the API answered with a review, in order.
Reviewed(q) ==
    SelectSeq([i \in 1..Len(q.outcomes) |-> i], LAMBDA i : q.outcomes[i].kind = "review")
OneResultPerQuery(q) ==
    /\ Len(q.value) <= Least(Len(q.claims), 3)
    /\ q.returned =>
         /\ Len(q.value) = Len(Reviewed(q))
         /\ \A k \in 1..Len(q.value) :
              q.value[k].claim \in {q.claims[Reviewed(q)[k]], q.outcomes[Reviewed(q)[k]].review.text}
EmptyReturnsEmpty(r) ==
    /\ rq[r].returned /\ rq[r].value = <<>> /\ rq[r].exc = "none"
    /\ Count(r, "fact_check.get") = 0
\* As stated: whatever the configuration.
C21_FactCheckLimits ==
    \A r \in Reqs : FactCheck(r) =>
        /\ QueriesAreFirstClaims(rq[r])
        /\ Count(r, "fact_check.get") = Len(rq[r].queries)
        /\ OneResultPerQuery(rq[r])
        /\ (Done(r) /\ rq[r].claims = <<>>) => EmptyReturnsEmpty(r)

\* C21, amended: the empty list returns [] when the API key is configured;
\* without the key every call, the empty one too, raises ConfigurationError
\* before any HTTP call.
C21_FactCheckLimitsConfigured ==
    \A r \in Reqs : FactCheck(r) =>
        /\ QueriesAreFirstClaims(rq[r])
        /\ Count(r, "fact_check.get") = Len(rq[r].queries)
        /\ OneResultPerQuery(rq[r])
        /\ (Done(r) /\ rq[r].claims = <<>> /\ rq[r].configured) => EmptyReturnsEmpty(r)
        /\ (Done(r) /\ ~rq[r].configured) =>
              /\ rq[r].exc = "ConfigurationError" /\ ~rq[r].returned
              /\ Count(r, "fact_check.get") = 0

\* A call with four claims, a long one among the first three, returned three
\* results; and a call with no claim returned.
C21_Witness ==
    /\ \E r \in Reqs : /\ FactCheck(r) /\ Done(r) /\ rq[r].returned
                       /\ Len(rq[r].claims) = 4 /\ Len(rq[r].value) = 3
                       /\ \E i \in 1..3 : rq[r].claims[i].len > 500
    /\ \E r \in Reqs : /\ FactCheck(r) /\ Done(r) /\ rq[r].returned
                       /\ rq[r].claims = <<>>

\* C22: a failed request does not stop the loop of fact_check_claims (every
\* claim to check is requested), but once a request failed the call raises
\* ApiError and returns none of the results collected; a list is returned only
\* when every request succeeded.
Failed(q) == \E i \in 1..Len(q.outcomes) : q.outcomes[i].kind = "failed"
C22_AllOrNothing ==
    \A r \in Reqs : (FactCheck(r) /\ Done(r) /\ rq[r].configured /\ rq[r].claims # <<>>) =>
        /\ Len(rq[r].queries) = Least(Len(rq[r].claims), 3)
        /\ Count(r, "fact_check.get") = Least(Len(rq[r].claims), 3)
        /\ Failed(rq[r]) => /\ rq[r].exc = "ApiError"
                            /\ ~rq[r].returned
                            /\ rq[r].value = <<>>
        /\ rq[r].returned => /\ ~Failed(rq[r])
                             /\ rq[r].exc = "none"
        /\ rq[r].returned \/ rq[r].exc = "ApiError"

\* The first of three requests failed, the second found a review, the third
\* was still made, and the call raised.
C22_Witness ==
    \E r \in Reqs :
        /\ FactCheck(r) /\ Done(r)
        /\ Len(rq[r].queries) = 3
        /\ rq[r].outcomes[1].kind = "failed" /\ rq[r].outcomes[2].kind = "review"
        /\ rq[r].all_results # <<>>
        /\ rq[r].exc = "ApiError" /\ ~rq[r].returned

\* C23: a call of check_database_for_url that returns normally returns 'real',
\* 'fake' or 'not_found', whatever the URL and whatever url_verdicts holds.
CheckDb(r) == rq[r].kind = "call_check_db"
C23_ThreeVerdicts ==
    \A r \in Reqs : (CheckDb(r) /\ Done(r) /\ rq[r].exc = "none") =>
        rq[r].returned /\ rq[r].value \in {"real", "fake", "not_found"}

\* C24: a failure of the language detection or of a translation never turns a
\* parsed analysis into an error result.  A failed detection is 'en', and for
\* 'en' no translation is called and the result stays as it was parsed; for
\* another language localized_summary becomes the translations of the joined
\* reasoning and educational_insights, the English text standing where a
\* translation failed.
Analyzing(r) == rq[r].kind = "call_analyze"
Translating(r) == pc[r] \in {"translate_reasoning", "translate_insights"}
TextResult(r) == rq[r].result.v["textResult"]
EnglishOf(tr, key) == JoinedField(tr, key).text
Localizations(r, key) ==
    {EnglishOf(TextResult(r), key), Translated(EnglishOf(TextResult(r), key), rq[r].lang)}
Localized(result, x, y) ==
    LET summary == JObj(With(One("reasoning", JText(x)), "educational_insights", JText(y)))
        tr == result.v["textResult"]
    IN  JObj(With(result, "textResult", JObj(With(tr, "localized_summary", summary))))
FailedDetectionIsEnglish ==
    \A r \in Reqs : Analyzing(r) =>
        /\ rq[r].detect = "fail" => rq[r].lang = "en"
        /\ rq[r].lang = "en" =>
              /\ ~Translating(r)
              /\ Count(r, "translate_reasoning") = 0
              /\ Count(r, "translate_insights") = 0
Parsed(r) == pc[r] = "generate" /\ pc'[r] \in {"store", "translate_reasoning"}
TranslationSteps(r) ==
    /\ (pc[r] = "translate_reasoning" /\ pc'[r] # pc[r]) =>
          /\ pc'[r] = "translate_insights"
          /\ rq'[r].result = rq[r].result
    /\ (pc[r] = "translate_insights" /\ pc'[r] # pc[r]) =>
          /\ pc'[r] = "store"
          /\ HasError(rq'[r].result) = HasError(rq[r].result)
          /\ \E x \in Localizations(r, "reasoning"),
                y \in Localizations(r, "educational_insights") :
                rq'[r].result = Localized(rq[r].result, x, y)
    /\ (Storing(r) /\ pc'[r] # "idle") => rq'[r].result = rq[r].result
\* As stated: every parsed analysis in another language is localized.
LocalizedWhenNotEnglish(r) ==
    Parsed(r) =>
        pc'[r] = IF rq[r].lang # "en" THEN "translate_reasoning" ELSE "store"
C24_LocalizationNeverFails ==
    /\ []FailedDetectionIsEnglish
    /\ [][\A r \in Reqs : TranslationSteps(r) /\ LocalizedWhenNotEnglish(r)]_vars

\* C24, amended: for another language the summary is localized when
\* textResult is an object whose reasoning and educational_insights, where
\* present, are iterables of strings (a list of strings, a string, an
\* object); otherwise the join raises, the error is logged and the result
\* stays as it was parsed.
Joinable(tr) ==
    /\ tr.kind = "obj"
    /\ \A key \in {"reasoning", "educational_insights"} :
          key \in DOMAIN tr.v => Iterable(tr.v[key])
LocalizedWhenJoinable(r) ==
    Parsed(r) =>
        pc'[r] = IF rq[r].lang # "en" /\ Joinable(rq'[r].result.v["textResult"])
                 THEN "translate_reasoning" ELSE "store"
C24_LocalizationWhenJoinable ==
    /\ []FailedDetectionIsEnglish
    /\ [][\A r \in Reqs : TranslationSteps(r) /\ LocalizedWhenJoinable(r)]_vars

\* A Hindi article whose reasoning could not be translated and whose insights
\* could: the summary holds the English reasoning and the Hindi insights; and
\* an article whose detection failed, returned as it was parsed.
C24_Witness ==
    /\ \E r \in Reqs :
          /\ Analyzing(r) /\ Done(r) /\ rq[r].detect = "hi" /\ ~HasError(rq[r].result)
          /\ In("localized_summary", TextResult(r))
          /\ LET summary == TextResult(r).v["localized_summary"]
             IN  /\ summary.v["reasoning"] = JText(Join(<<"r1", "r2">>))
                 /\ summary.v["educational_insights"] = JText(Translated(<<"i1">>, "hi"))
    /\ \E r \in Reqs :
          /\ Analyzing(r) /\ Done(r) /\ rq[r].detect = "fail" /\ rq[r].parsed
          /\ HasKey(rq[r].result, "textResult")
          /\ ~HasError(rq[r].result)
          /\ ~In("localized_summary", TextResult(r))

\* C25: every connection get_or_create_user, check_database_for_url,
\* update_analysis_results and the health check obtain is closed before the
\* function returns, however it returns; a connection is open only between
\* the connect of a function and its return, so with nothing in flight no
\* connection is open.
OpensConnection(r) ==
    rq[r].kind \in {"call_user", "call_upsert", "call_check_db", "health"}
Open(r) == OpensConnection(r) /\ rq[r].conn
Connected(r) ==
    pc[r] \in {"user_select", "user_insert", "user_commit", "upsert_execute", "upsert_commit",
               "verdict_select", "health_release"}
C25_ConnectionsClosed ==
    /\ \A r \in Reqs : OpensConnection(r) => (rq[r].conn <=> Connected(r))
    /\ \A r \in Reqs : Done(r) => ~Open(r)
    /\ (\A r \in Reqs : pc[r] \in {"idle", "done"}) => Cardinality({r \in Reqs : Open(r)}) = 0

\* Nothing is in flight after a call of each kind connected and returned, one
\* of them with DatabaseError raised while its connection was open.
C25_Witness ==
    /\ \A r \in Reqs : Done(r) /\ Called(r, "connect") /\ ~Open(r)
    /\ \E r \in Reqs : /\ rq[r].kind \in {"call_user", "call_upsert", "call_check_db"}
                       /\ rq[r].exc = "DatabaseError"
                       /\ \/ Called(r, "users.select") \/ Called(r, "results.upsert")
                          \/ Called(r, "url_verdicts.select")
    /\ \E r \in Reqs : /\ rq[r].kind \in {"call_user", "call_upsert", "call_check_db", "health"}
                       /\ rq[r].kind = "health" \/ rq[r].exc = "none"
====
